---------------------------- MODULE Spec2Model ----------------------------
(***************************************************************************)
(* A model of the World Cup 2026 Monte Carlo predictor (wc-core,           *)
(* wc-strategies, wc-simulation).  Each component of the program is a      *)
(* state machine over its own variables with its own specification:        *)
(*   SpecBracket   - ranking of third-placed teams, third-place            *)
(*                   assignment (lookup table + backtracking solver) and   *)
(*                   construction of the 16 Round-of-32 pairings;          *)
(*   SpecMatch     - the match sampler (regulation, extra time, penalty    *)
(*                   shootout) driven by an arbitrary RNG stream;          *)
(*   SpecAggregate - AggregatedResults::from_results with its derived      *)
(*                   fields, the greedy and the optimal bracket;           *)
(*   SpecRunner    - the sequential and the parallel Monte Carlo drivers;  *)
(*   SpecGroup     - the six matches of one group and its standings;       *)
(*   SpecEngine    - one simulated tournament, round by round;             *)
(*   SpecValidate  - Tournament::validate and the run of what it accepts;  *)
(*   SpecProgress  - the loop of run_with_progress and its callbacks;      *)
(*   SpecCap       - the bracket-signature map of from_results when full.  *)
(* Team ids are the integers 0..47, group letters the strings "A".."L".    *)
(***************************************************************************)
EXTENDS Integers, Sequences, FiniteSets, TLC

VARIABLES
    \* ---- bracket resolver (wc-core/bracket.rs, wc-simulation/engine.rs)
    tournament,        \* the groups of the tournament: sequence of [id, teams]
    group_results,     \* one GroupResult per group: [group_id, standings]
    r32_pairings,      \* Vec<(TeamId, TeamId)> returned by build_r32_pairings
    third_assignments, \* Option<[char; 8]> returned by get_third_place_assignments
    solver_result,     \* Option<[char; 8]> returned by compute_third_place_assignments
    bpc                \* position of the bracket resolver

VARIABLES
    \* ---- match sampler (wc-strategies/traits.rs)
    ctx,               \* MatchContext: [home_team, away_team, is_knockout]
    result,            \* the MatchResult under construction
    shootout,          \* locals of simulate_penalties: [round, home_score, away_score]
    mpc                \* position of the match sampler

VARIABLES
    \* ---- aggregation (wc-simulation/aggregator.rs, optimal_bracket.rs)
    tournament_results,  \* Vec<TournamentResult> handed to from_results
    aggregated,          \* Option: the AggregatedResults of `results`
    aggregated_permuted, \* Option: the AggregatedResults of a permutation
    km_tie,              \* which maximum matching the kuhn_munkres of the build returns
    apc                  \* position of the aggregation

VARIABLES
    \* ---- group stage of one group (wc-core/group.rs, wc-core/tiebreaker.rs)
    grp,               \* the Group whose stage is played: [id, teams]
    grp_matches,       \* the six MatchResults of the group
    grp_result,        \* the GroupResult: [group_id, matches, standings]
    gpc                \* position of simulate_group

VARIABLES
    \* ---- one simulated tournament (wc-simulation/engine.rs)
    eng_group_results, \* Vec<GroupResult> of simulate_group_stage
    eng_pairings,      \* the Round-of-32 pairings of build_r32_pairings
    eng_bracket,       \* the KnockoutBracket as far as it has been played
    eng_result,        \* Option: the TournamentResult returned by simulate
    epc                \* position of simulate

VARIABLES
    \* ---- validation of a tournament (wc-core/tournament.rs)
    v_teams,           \* Tournament.teams, as team ids
    v_groups,          \* Tournament.groups: sequence of [id, teams]
    v_outcome,         \* Option: what Tournament::validate returned
    v_result,          \* Option: the TournamentResult of a simulation that returned
    vpc                \* position of validate

VARIABLES
    \* ---- Monte Carlo runner (wc-simulation/runner.rs)
    config,            \* SimulationConfig: [iterations, seed, parallelism]
    base_seed,         \* base_seed of the parallel run in progress
    slots,             \* the indexed collect of the parallel run: index -> Option
    running,           \* simulations claimed by a worker: set of <<index, seed>>
    progress_calls,    \* the (completed, total) calls of on_progress, last sequential run
    outputs,           \* what the runs returned so far: [mode, seeds, aggregated]
    rpc                \* position of the runner

VARIABLES
    \* ---- the loop of run_with_progress (wc-simulation/runner.rs)
    seq_iterations,    \* config.iterations of the sequential run
    seq_seed,          \* config.seed of the sequential run
    seq_clock,         \* what the system clock reads when the run starts
    seq_base_seed,     \* base_seed
    seq_rng_seed,      \* Option: the seed of the generator of the last iteration
    seq_i,             \* the loop variable i
    seq_results,       \* results.len(): the simulations finished so far
    seq_calls,         \* the (completed, total) calls of on_progress so far
    seq_total,         \* Option: total_simulations of the returned AggregatedResults
    spc                \* position of the loop

VARIABLES
    \* ---- bracket_outcomes along the loop of from_results (aggregator.rs)
    cap_outcomes,      \* bracket_outcomes: entries <<signature, <<count, bracket>>>>
    cap_presented,     \* result.knockout_bracket of the iteration just done
    cap_seen,          \* iterations followed so far
    cpc                \* position of the loop

bracketVars == <<tournament, group_results, r32_pairings, third_assignments,
                 solver_result, bpc>>

matchVars == <<ctx, result, shootout, mpc>>

aggVars == <<tournament_results, aggregated, aggregated_permuted, km_tie, apc>>

groupVars == <<grp, grp_matches, grp_result, gpc>>

engineVars == <<eng_group_results, eng_pairings, eng_bracket, eng_result, epc>>

validateVars == <<v_teams, v_groups, v_outcome, v_result, vpc>>

runnerVars == <<config, base_seed, slots, running, progress_calls, outputs, rpc>>

progressVars == <<seq_iterations, seq_seed, seq_clock, seq_base_seed, seq_rng_seed,
                  seq_i, seq_results, seq_calls, seq_total, spc>>

baseVars == <<bracketVars, matchVars, aggVars, runnerVars, groupVars, engineVars,
              validateVars>>

capVars == <<cap_outcomes, cap_presented, cap_seen, cpc>>

lateVars == <<progressVars, capVars>>

vars == <<baseVars, lateVars>>

(***************************************************************************)
(* Generic helpers.                                                        *)
(***************************************************************************)
Range(s) == {s[i] : i \in DOMAIN s}

\* A table held in memory: the function with every entry computed (f itself).
table(f) == f @@ <<>>

\* Option<T>
None == [is_some |-> FALSE, value |-> <<>>]
Some(v) == [is_some |-> TRUE, value |-> v]

\* slice.iter().position(|&g| g == x), 1-based; 0 stands for Option::None
position(s, x) ==
    IF \E i \in DOMAIN s : s[i] = x
    THEN CHOOSE i \in DOMAIN s : s[i] = x /\ \A j \in 1..(i - 1) : s[j] # x
    ELSE 0

(***************************************************************************)
(* Groups and teams (wc-core/group.rs, wc-core/tournament.rs).             *)
(***************************************************************************)
NUM_TEAMS == 48
NUM_GROUPS == 12
TEAMS_PER_GROUP == 4

Letters == <<"A", "B", "C", "D", "E", "F", "G", "H", "I", "J", "K", "L">>

\* GroupId::from_index, index 0..11
from_index(index) == Letters[index + 1]

\* GroupId::to_index
to_index(c) == position(Letters, c) - 1

TeamIds == 0..(NUM_TEAMS - 1)

(***************************************************************************)
(* The Round-of-32 template (wc-core/bracket.rs).                          *)
(***************************************************************************)
GroupTeam(g, p) == [kind |-> "GroupTeam", group |-> g, position |-> p, slot_index |-> 0]
ThirdPlacePool(i) == [kind |-> "ThirdPlacePool", group |-> "", position |-> "", slot_index |-> i]
R32Match(n, a, b) == [match_num |-> n, team_a |-> a, team_b |-> b]

R32_BRACKET ==
    << R32Match(74, GroupTeam("E", "Winner"),   ThirdPlacePool(0)),
       R32Match(77, GroupTeam("I", "Winner"),   ThirdPlacePool(1)),
       R32Match(75, GroupTeam("F", "Winner"),   GroupTeam("C", "RunnerUp")),
       R32Match(76, GroupTeam("C", "Winner"),   GroupTeam("F", "RunnerUp")),
       R32Match(79, GroupTeam("A", "Winner"),   ThirdPlacePool(2)),
       R32Match(80, GroupTeam("L", "Winner"),   ThirdPlacePool(3)),
       R32Match(73, GroupTeam("A", "RunnerUp"), GroupTeam("B", "RunnerUp")),
       R32Match(78, GroupTeam("E", "RunnerUp"), GroupTeam("I", "RunnerUp")),
       R32Match(81, GroupTeam("D", "Winner"),   ThirdPlacePool(4)),
       R32Match(82, GroupTeam("G", "Winner"),   ThirdPlacePool(5)),
       R32Match(84, GroupTeam("H", "Winner"),   GroupTeam("J", "RunnerUp")),
       R32Match(86, GroupTeam("J", "Winner"),   GroupTeam("H", "RunnerUp")),
       R32Match(85, GroupTeam("B", "Winner"),   ThirdPlacePool(6)),
       R32Match(87, GroupTeam("K", "Winner"),   ThirdPlacePool(7)),
       R32Match(83, GroupTeam("K", "RunnerUp"), GroupTeam("L", "RunnerUp")),
       R32Match(88, GroupTeam("D", "RunnerUp"), GroupTeam("G", "RunnerUp")) >>

\* Pool of possible source groups for each third-place bracket slot,
\* index order [1E, 1I, 1A, 1L, 1D, 1G, 1B, 1K]; pool i is THIRD_PLACE_POOLS[i + 1].
THIRD_PLACE_POOLS ==
    << <<"A", "B", "C", "D", "F">>,
       <<"C", "D", "F", "G", "H">>,
       <<"C", "E", "F", "H", "I">>,
       <<"E", "H", "I", "J", "K">>,
       <<"B", "E", "F", "I", "J">>,
       <<"A", "E", "H", "I", "J">>,
       <<"E", "F", "G", "I", "J">>,
       <<"D", "E", "I", "J", "L">> >>

\* The rows m.insert(key, value) of THIRD_PLACE_TABLE, in source order.
THIRD_PLACE_TABLE_ROWS ==
  <<
     <<<<"E","F","G","H","I","J","K","L">>, <<"F","G","E","K","I","H","J","L">>>>,
     <<<<"D","F","G","H","I","J","K","L">>, <<"D","F","H","K","I","J","G","L">>>>,
     <<<<"D","E","G","H","I","J","K","L">>, <<"D","G","E","K","I","H","J","L">>>>,
     <<<<"D","E","F","H","I","J","K","L">>, <<"D","F","E","K","I","H","J","L">>>>,
     <<<<"D","E","F","G","I","J","K","L">>, <<"D","F","E","K","I","G","J","L">>>>,
     <<<<"D","E","F","G","H","J","K","L">>, <<"D","F","E","K","J","G","H","L">>>>,
     <<<<"D","E","F","G","H","I","K","L">>, <<"D","F","E","K","I","G","H","L">>>>,
     <<<<"D","E","F","G","H","I","J","K">>, <<"D","F","E","J","I","G","H","K">>>>,
     <<<<"C","F","G","H","I","J","K","L">>, <<"F","G","C","K","I","H","J","L">>>>,
     <<<<"C","E","G","H","I","J","K","L">>, <<"E","G","C","K","I","H","J","L">>>>,
     <<<<"C","E","F","H","I","J","K","L">>, <<"E","F","C","K","I","H","J","L">>>>,
     <<<<"C","E","F","G","I","J","K","L">>, <<"E","F","C","K","I","G","J","L">>>>,
     <<<<"C","E","F","G","H","J","K","L">>, <<"E","F","C","K","J","G","H","L">>>>,
     <<<<"C","E","F","G","H","I","K","L">>, <<"E","F","C","K","I","G","H","L">>>>,
     <<<<"C","E","F","G","H","I","J","K">>, <<"E","F","C","J","I","G","H","K">>>>,
     <<<<"C","D","G","H","I","J","K","L">>, <<"D","G","C","K","I","H","J","L">>>>,
     <<<<"C","D","F","H","I","J","K","L">>, <<"D","F","C","K","I","H","J","L">>>>,
     <<<<"C","D","F","G","I","J","K","L">>, <<"D","F","C","K","I","G","J","L">>>>,
     <<<<"C","D","F","G","H","J","K","L">>, <<"D","F","C","K","J","G","H","L">>>>,
     <<<<"C","D","F","G","H","I","K","L">>, <<"D","F","C","K","I","G","H","L">>>>,
     <<<<"C","D","F","G","H","I","J","K">>, <<"D","F","C","J","I","G","H","K">>>>,
     <<<<"C","D","E","H","I","J","K","L">>, <<"D","E","C","K","I","H","J","L">>>>,
     <<<<"C","D","E","G","I","J","K","L">>, <<"D","E","C","K","I","G","J","L">>>>,
     <<<<"C","D","E","G","H","J","K","L">>, <<"D","E","C","K","J","G","H","L">>>>,
     <<<<"C","D","E","G","H","I","K","L">>, <<"D","E","C","K","I","G","H","L">>>>,
     <<<<"C","D","E","G","H","I","J","K">>, <<"D","E","C","J","I","G","H","K">>>>,
     <<<<"C","D","E","F","I","J","K","L">>, <<"D","E","C","K","I","F","J","L">>>>,
     <<<<"C","D","E","F","H","J","K","L">>, <<"D","E","C","K","J","F","H","L">>>>,
     <<<<"C","D","E","F","H","I","K","L">>, <<"D","E","C","K","I","F","H","L">>>>,
     <<<<"C","D","E","F","H","I","J","K">>, <<"D","E","C","J","I","F","H","K">>>>,
     <<<<"C","D","E","F","G","J","K","L">>, <<"D","E","C","K","J","F","G","L">>>>,
     <<<<"C","D","E","F","G","I","K","L">>, <<"D","E","C","K","I","F","G","L">>>>,
     <<<<"C","D","E","F","G","I","J","K">>, <<"D","E","C","J","I","F","G","K">>>>,
     <<<<"C","D","E","F","G","H","K","L">>, <<"D","E","C","K","F","G","H","L">>>>,
     <<<<"C","D","E","F","G","H","J","K">>, <<"D","E","C","J","F","G","H","K">>>>,
     <<<<"C","D","E","F","G","H","I","L">>, <<"D","E","C","L","I","F","G","H">>>>,
     <<<<"C","D","E","F","G","H","I","J">>, <<"D","E","C","J","I","F","G","H">>>>,
     <<<<"B","F","G","H","I","J","K","L">>, <<"F","G","B","K","I","H","J","L">>>>,
     <<<<"B","E","G","H","I","J","K","L">>, <<"E","G","B","K","I","H","J","L">>>>,
     <<<<"B","E","F","H","I","J","K","L">>, <<"E","F","B","K","I","H","J","L">>>>,
     <<<<"B","E","F","G","I","J","K","L">>, <<"E","F","B","K","I","G","J","L">>>>,
     <<<<"B","E","F","G","H","J","K","L">>, <<"E","F","B","K","J","G","H","L">>>>,
     <<<<"B","E","F","G","H","I","K","L">>, <<"E","F","B","K","I","G","H","L">>>>,
     <<<<"B","E","F","G","H","I","J","K">>, <<"E","F","B","J","I","G","H","K">>>>,
     <<<<"B","D","G","H","I","J","K","L">>, <<"D","G","B","K","I","H","J","L">>>>,
     <<<<"B","D","F","H","I","J","K","L">>, <<"D","F","B","K","I","H","J","L">>>>,
     <<<<"B","D","F","G","I","J","K","L">>, <<"D","F","B","K","I","G","J","L">>>>,
     <<<<"B","D","F","G","H","J","K","L">>, <<"D","F","B","K","J","G","H","L">>>>,
     <<<<"B","D","F","G","H","I","K","L">>, <<"D","F","B","K","I","G","H","L">>>>,
     <<<<"B","D","F","G","H","I","J","K">>, <<"D","F","B","J","I","G","H","K">>>>,
     <<<<"B","D","E","H","I","J","K","L">>, <<"D","E","B","K","I","H","J","L">>>>,
     <<<<"B","D","E","G","I","J","K","L">>, <<"D","E","B","K","I","G","J","L">>>>,
     <<<<"B","D","E","G","H","J","K","L">>, <<"D","E","B","K","J","G","H","L">>>>,
     <<<<"B","D","E","G","H","I","K","L">>, <<"D","E","B","K","I","G","H","L">>>>,
     <<<<"B","D","E","G","H","I","J","K">>, <<"D","E","B","J","I","G","H","K">>>>,
     <<<<"B","D","E","F","I","J","K","L">>, <<"D","E","B","K","I","F","J","L">>>>,
     <<<<"B","D","E","F","H","J","K","L">>, <<"D","E","B","K","J","F","H","L">>>>,
     <<<<"B","D","E","F","H","I","K","L">>, <<"D","E","B","K","I","F","H","L">>>>,
     <<<<"B","D","E","F","H","I","J","K">>, <<"D","E","B","J","I","F","H","K">>>>,
     <<<<"B","D","E","F","G","J","K","L">>, <<"D","E","B","K","J","F","G","L">>>>,
     <<<<"B","D","E","F","G","I","K","L">>, <<"D","E","B","K","I","F","G","L">>>>,
     <<<<"B","D","E","F","G","I","J","K">>, <<"D","E","B","J","I","F","G","K">>>>,
     <<<<"B","D","E","F","G","H","K","L">>, <<"D","E","B","K","F","G","H","L">>>>,
     <<<<"B","D","E","F","G","H","J","K">>, <<"D","E","B","J","F","G","H","K">>>>,
     <<<<"B","D","E","F","G","H","I","L">>, <<"D","E","B","L","I","F","G","H">>>>,
     <<<<"B","D","E","F","G","H","I","J">>, <<"D","E","B","J","I","F","G","H">>>>,
     <<<<"B","C","G","H","I","J","K","L">>, <<"C","G","B","K","I","H","J","L">>>>,
     <<<<"B","C","F","H","I","J","K","L">>, <<"C","F","B","K","I","H","J","L">>>>,
     <<<<"B","C","F","G","I","J","K","L">>, <<"C","F","B","K","I","G","J","L">>>>,
     <<<<"B","C","F","G","H","J","K","L">>, <<"C","F","B","K","J","G","H","L">>>>,
     <<<<"B","C","F","G","H","I","K","L">>, <<"C","F","B","K","I","G","H","L">>>>,
     <<<<"B","C","F","G","H","I","J","K">>, <<"C","F","B","J","I","G","H","K">>>>,
     <<<<"B","C","E","H","I","J","K","L">>, <<"C","E","B","K","I","H","J","L">>>>,
     <<<<"B","C","E","G","I","J","K","L">>, <<"C","E","B","K","I","G","J","L">>>>,
     <<<<"B","C","E","G","H","J","K","L">>, <<"C","E","B","K","J","G","H","L">>>>,
     <<<<"B","C","E","G","H","I","K","L">>, <<"C","E","B","K","I","G","H","L">>>>,
     <<<<"B","C","E","G","H","I","J","K">>, <<"C","E","B","J","I","G","H","K">>>>,
     <<<<"B","C","E","F","I","J","K","L">>, <<"C","E","B","K","I","F","J","L">>>>,
     <<<<"B","C","E","F","H","J","K","L">>, <<"C","E","B","K","J","F","H","L">>>>,
     <<<<"B","C","E","F","H","I","K","L">>, <<"C","E","B","K","I","F","H","L">>>>,
     <<<<"B","C","E","F","H","I","J","K">>, <<"C","E","B","J","I","F","H","K">>>>,
     <<<<"B","C","E","F","G","J","K","L">>, <<"C","E","B","K","J","F","G","L">>>>,
     <<<<"B","C","E","F","G","I","K","L">>, <<"C","E","B","K","I","F","G","L">>>>,
     <<<<"B","C","E","F","G","I","J","K">>, <<"C","E","B","J","I","F","G","K">>>>,
     <<<<"B","C","E","F","G","H","K","L">>, <<"C","E","B","K","F","G","H","L">>>>,
     <<<<"B","C","E","F","G","H","J","K">>, <<"C","E","B","J","F","G","H","K">>>>,
     <<<<"B","C","E","F","G","H","I","L">>, <<"C","E","B","L","I","F","G","H">>>>,
     <<<<"B","C","E","F","G","H","I","J">>, <<"C","E","B","J","I","F","G","H">>>>,
     <<<<"B","C","D","H","I","J","K","L">>, <<"C","D","B","K","I","H","J","L">>>>,
     <<<<"B","C","D","G","I","J","K","L">>, <<"C","D","B","K","I","G","J","L">>>>,
     <<<<"B","C","D","G","H","J","K","L">>, <<"C","D","B","K","J","G","H","L">>>>,
     <<<<"B","C","D","G","H","I","K","L">>, <<"C","D","B","K","I","G","H","L">>>>,
     <<<<"B","C","D","G","H","I","J","K">>, <<"C","D","B","J","I","G","H","K">>>>,
     <<<<"B","C","D","F","I","J","K","L">>, <<"C","D","B","K","I","F","J","L">>>>,
     <<<<"B","C","D","F","H","J","K","L">>, <<"C","D","B","K","J","F","H","L">>>>,
     <<<<"B","C","D","F","H","I","K","L">>, <<"C","D","B","K","I","F","H","L">>>>,
     <<<<"B","C","D","F","H","I","J","K">>, <<"C","D","B","J","I","F","H","K">>>>,
     <<<<"B","C","D","F","G","J","K","L">>, <<"C","D","B","K","J","F","G","L">>>>,
     <<<<"B","C","D","F","G","I","K","L">>, <<"C","D","B","K","I","F","G","L">>>>,
     <<<<"B","C","D","F","G","I","J","K">>, <<"C","D","B","J","I","F","G","K">>>>,
     <<<<"B","C","D","F","G","H","K","L">>, <<"C","D","B","K","F","G","H","L">>>>,
     <<<<"B","C","D","F","G","H","J","K">>, <<"C","D","B","J","F","G","H","K">>>>,
     <<<<"B","C","D","F","G","H","I","L">>, <<"C","D","B","L","I","F","G","H">>>>,
     <<<<"B","C","D","F","G","H","I","J">>, <<"C","D","B","J","I","F","G","H">>>>,
     <<<<"B","C","D","E","I","J","K","L">>, <<"C","D","B","K","I","E","J","L">>>>,
     <<<<"B","C","D","E","H","J","K","L">>, <<"C","D","B","K","J","E","H","L">>>>,
     <<<<"B","C","D","E","H","I","K","L">>, <<"C","D","B","K","I","E","H","L">>>>,
     <<<<"B","C","D","E","H","I","J","K">>, <<"C","D","B","J","I","E","H","K">>>>,
     <<<<"B","C","D","E","G","J","K","L">>, <<"C","D","B","K","J","E","G","L">>>>,
     <<<<"B","C","D","E","G","I","K","L">>, <<"C","D","B","K","I","E","G","L">>>>,
     <<<<"B","C","D","E","G","I","J","K">>, <<"C","D","B","J","I","E","G","K">>>>,
     <<<<"B","C","D","E","G","H","K","L">>, <<"C","D","B","K","E","G","H","L">>>>,
     <<<<"B","C","D","E","G","H","J","K">>, <<"C","D","B","J","E","G","H","K">>>>,
     <<<<"B","C","D","E","G","H","I","L">>, <<"C","D","B","L","I","E","G","H">>>>,
     <<<<"B","C","D","E","G","H","I","J">>, <<"C","D","B","J","I","E","G","H">>>>,
     <<<<"B","C","D","E","F","J","K","L">>, <<"C","D","B","K","J","E","F","L">>>>,
     <<<<"B","C","D","E","F","I","K","L">>, <<"C","D","B","K","I","E","F","L">>>>,
     <<<<"B","C","D","E","F","I","J","K">>, <<"C","D","B","J","I","E","F","K">>>>,
     <<<<"B","C","D","E","F","H","K","L">>, <<"C","D","B","K","E","F","H","L">>>>,
     <<<<"B","C","D","E","F","H","J","K">>, <<"C","D","B","J","E","F","H","K">>>>,
     <<<<"B","C","D","E","F","H","I","L">>, <<"C","D","B","L","I","E","F","H">>>>,
     <<<<"B","C","D","E","F","H","I","J">>, <<"C","D","B","J","I","E","F","H">>>>,
     <<<<"B","C","D","E","F","G","K","L">>, <<"C","D","B","K","E","F","G","L">>>>,
     <<<<"B","C","D","E","F","G","J","K">>, <<"C","D","B","J","E","F","G","K">>>>,
     <<<<"B","C","D","E","F","G","I","L">>, <<"C","D","B","L","I","E","F","G">>>>,
     <<<<"B","C","D","E","F","G","I","J">>, <<"C","D","B","J","I","E","F","G">>>>,
     <<<<"B","C","D","E","F","G","H","L">>, <<"C","D","B","L","E","F","G","H">>>>,
     <<<<"B","C","D","E","F","G","H","K">>, <<"C","D","B","K","E","F","G","H">>>>,
     <<<<"B","C","D","E","F","G","H","J">>, <<"C","D","B","J","E","F","G","H">>>>,
     <<<<"B","C","D","E","F","G","H","I">>, <<"C","D","B","I","E","F","G","H">>>>,
     <<<<"A","F","G","H","I","J","K","L">>, <<"F","G","A","K","I","H","J","L">>>>,
     <<<<"A","E","G","H","I","J","K","L">>, <<"E","G","A","K","I","H","J","L">>>>,
     <<<<"A","E","F","H","I","J","K","L">>, <<"E","F","A","K","I","H","J","L">>>>,
     <<<<"A","E","F","G","I","J","K","L">>, <<"E","F","A","K","I","G","J","L">>>>,
     <<<<"A","E","F","G","H","J","K","L">>, <<"E","F","A","K","J","G","H","L">>>>,
     <<<<"A","E","F","G","H","I","K","L">>, <<"E","F","A","K","I","G","H","L">>>>,
     <<<<"A","E","F","G","H","I","J","K">>, <<"E","F","A","J","I","G","H","K">>>>,
     <<<<"A","D","G","H","I","J","K","L">>, <<"D","G","A","K","I","H","J","L">>>>,
     <<<<"A","D","F","H","I","J","K","L">>, <<"D","F","A","K","I","H","J","L">>>>,
     <<<<"A","D","F","G","I","J","K","L">>, <<"D","F","A","K","I","G","J","L">>>>,
     <<<<"A","D","F","G","H","J","K","L">>, <<"D","F","A","K","J","G","H","L">>>>,
     <<<<"A","D","F","G","H","I","K","L">>, <<"D","F","A","K","I","G","H","L">>>>,
     <<<<"A","D","F","G","H","I","J","K">>, <<"D","F","A","J","I","G","H","K">>>>,
     <<<<"A","D","E","H","I","J","K","L">>, <<"D","E","A","K","I","H","J","L">>>>,
     <<<<"A","D","E","G","I","J","K","L">>, <<"D","E","A","K","I","G","J","L">>>>,
     <<<<"A","D","E","G","H","J","K","L">>, <<"D","E","A","K","J","G","H","L">>>>,
     <<<<"A","D","E","G","H","I","K","L">>, <<"D","E","A","K","I","G","H","L">>>>,
     <<<<"A","D","E","G","H","I","J","K">>, <<"D","E","A","J","I","G","H","K">>>>,
     <<<<"A","D","E","F","I","J","K","L">>, <<"D","E","A","K","I","F","J","L">>>>,
     <<<<"A","D","E","F","H","J","K","L">>, <<"D","E","A","K","J","F","H","L">>>>,
     <<<<"A","D","E","F","H","I","K","L">>, <<"D","E","A","K","I","F","H","L">>>>,
     <<<<"A","D","E","F","H","I","J","K">>, <<"D","E","A","J","I","F","H","K">>>>,
     <<<<"A","D","E","F","G","J","K","L">>, <<"D","E","A","K","J","F","G","L">>>>,
     <<<<"A","D","E","F","G","I","K","L">>, <<"D","E","A","K","I","F","G","L">>>>,
     <<<<"A","D","E","F","G","I","J","K">>, <<"D","E","A","J","I","F","G","K">>>>,
     <<<<"A","D","E","F","G","H","K","L">>, <<"D","E","A","K","F","G","H","L">>>>,
     <<<<"A","D","E","F","G","H","J","K">>, <<"D","E","A","J","F","G","H","K">>>>,
     <<<<"A","D","E","F","G","H","I","L">>, <<"D","E","A","L","I","F","G","H">>>>,
     <<<<"A","D","E","F","G","H","I","J">>, <<"D","E","A","J","I","F","G","H">>>>,
     <<<<"A","C","G","H","I","J","K","L">>, <<"C","G","A","K","I","H","J","L">>>>,
     <<<<"A","C","F","H","I","J","K","L">>, <<"C","F","A","K","I","H","J","L">>>>,
     <<<<"A","C","F","G","I","J","K","L">>, <<"C","F","A","K","I","G","J","L">>>>,
     <<<<"A","C","F","G","H","J","K","L">>, <<"C","F","A","K","J","G","H","L">>>>,
     <<<<"A","C","F","G","H","I","K","L">>, <<"C","F","A","K","I","G","H","L">>>>,
     <<<<"A","C","F","G","H","I","J","K">>, <<"C","F","A","J","I","G","H","K">>>>,
     <<<<"A","C","E","H","I","J","K","L">>, <<"C","E","A","K","I","H","J","L">>>>,
     <<<<"A","C","E","G","I","J","K","L">>, <<"C","E","A","K","I","G","J","L">>>>,
     <<<<"A","C","E","G","H","J","K","L">>, <<"C","E","A","K","J","G","H","L">>>>,
     <<<<"A","C","E","G","H","I","K","L">>, <<"C","E","A","K","I","G","H","L">>>>,
     <<<<"A","C","E","G","H","I","J","K">>, <<"C","E","A","J","I","G","H","K">>>>,
     <<<<"A","C","E","F","I","J","K","L">>, <<"C","E","A","K","I","F","J","L">>>>,
     <<<<"A","C","E","F","H","J","K","L">>, <<"C","E","A","K","J","F","H","L">>>>,
     <<<<"A","C","E","F","H","I","K","L">>, <<"C","E","A","K","I","F","H","L">>>>,
     <<<<"A","C","E","F","H","I","J","K">>, <<"C","E","A","J","I","F","H","K">>>>,
     <<<<"A","C","E","F","G","J","K","L">>, <<"C","E","A","K","J","F","G","L">>>>,
     <<<<"A","C","E","F","G","I","K","L">>, <<"C","E","A","K","I","F","G","L">>>>,
     <<<<"A","C","E","F","G","I","J","K">>, <<"C","E","A","J","I","F","G","K">>>>,
     <<<<"A","C","E","F","G","H","K","L">>, <<"C","E","A","K","F","G","H","L">>>>,
     <<<<"A","C","E","F","G","H","J","K">>, <<"C","E","A","J","F","G","H","K">>>>,
     <<<<"A","C","E","F","G","H","I","L">>, <<"C","E","A","L","I","F","G","H">>>>,
     <<<<"A","C","E","F","G","H","I","J">>, <<"C","E","A","J","I","F","G","H">>>>,
     <<<<"A","C","D","H","I","J","K","L">>, <<"C","D","A","K","I","H","J","L">>>>,
     <<<<"A","C","D","G","I","J","K","L">>, <<"C","D","A","K","I","G","J","L">>>>,
     <<<<"A","C","D","G","H","J","K","L">>, <<"C","D","A","K","J","G","H","L">>>>,
     <<<<"A","C","D","G","H","I","K","L">>, <<"C","D","A","K","I","G","H","L">>>>,
     <<<<"A","C","D","G","H","I","J","K">>, <<"C","D","A","J","I","G","H","K">>>>,
     <<<<"A","C","D","F","I","J","K","L">>, <<"C","D","A","K","I","F","J","L">>>>,
     <<<<"A","C","D","F","H","J","K","L">>, <<"C","D","A","K","J","F","H","L">>>>,
     <<<<"A","C","D","F","H","I","K","L">>, <<"C","D","A","K","I","F","H","L">>>>,
     <<<<"A","C","D","F","H","I","J","K">>, <<"C","D","A","J","I","F","H","K">>>>,
     <<<<"A","C","D","F","G","J","K","L">>, <<"C","D","A","K","J","F","G","L">>>>,
     <<<<"A","C","D","F","G","I","K","L">>, <<"C","D","A","K","I","F","G","L">>>>,
     <<<<"A","C","D","F","G","I","J","K">>, <<"C","D","A","J","I","F","G","K">>>>,
     <<<<"A","C","D","F","G","H","K","L">>, <<"C","D","A","K","F","G","H","L">>>>,
     <<<<"A","C","D","F","G","H","J","K">>, <<"C","D","A","J","F","G","H","K">>>>,
     <<<<"A","C","D","F","G","H","I","L">>, <<"C","D","A","L","I","F","G","H">>>>,
     <<<<"A","C","D","F","G","H","I","J">>, <<"C","D","A","J","I","F","G","H">>>>,
     <<<<"A","C","D","E","I","J","K","L">>, <<"C","D","A","K","I","E","J","L">>>>,
     <<<<"A","C","D","E","H","J","K","L">>, <<"C","D","A","K","J","E","H","L">>>>,
     <<<<"A","C","D","E","H","I","K","L">>, <<"C","D","A","K","I","E","H","L">>>>,
     <<<<"A","C","D","E","H","I","J","K">>, <<"C","D","A","J","I","E","H","K">>>>,
     <<<<"A","C","D","E","G","J","K","L">>, <<"C","D","A","K","J","E","G","L">>>>,
     <<<<"A","C","D","E","G","I","K","L">>, <<"C","D","A","K","I","E","G","L">>>>,
     <<<<"A","C","D","E","G","I","J","K">>, <<"C","D","A","J","I","E","G","K">>>>,
     <<<<"A","C","D","E","G","H","K","L">>, <<"C","D","A","K","E","G","H","L">>>>,
     <<<<"A","C","D","E","G","H","J","K">>, <<"C","D","A","J","E","G","H","K">>>>,
     <<<<"A","C","D","E","G","H","I","L">>, <<"C","D","A","L","I","E","G","H">>>>,
     <<<<"A","C","D","E","G","H","I","J">>, <<"C","D","A","J","I","E","G","H">>>>,
     <<<<"A","C","D","E","F","J","K","L">>, <<"C","D","A","K","J","E","F","L">>>>,
     <<<<"A","C","D","E","F","I","K","L">>, <<"C","D","A","K","I","E","F","L">>>>,
     <<<<"A","C","D","E","F","I","J","K">>, <<"C","D","A","J","I","E","F","K">>>>,
     <<<<"A","C","D","E","F","H","K","L">>, <<"C","D","A","K","E","F","H","L">>>>,
     <<<<"A","C","D","E","F","H","J","K">>, <<"C","D","A","J","E","F","H","K">>>>,
     <<<<"A","C","D","E","F","H","I","L">>, <<"C","D","A","L","I","E","F","H">>>>,
     <<<<"A","C","D","E","F","H","I","J">>, <<"C","D","A","J","I","E","F","H">>>>,
     <<<<"A","C","D","E","F","G","K","L">>, <<"C","D","A","K","E","F","G","L">>>>,
     <<<<"A","C","D","E","F","G","J","K">>, <<"C","D","A","J","E","F","G","K">>>>,
     <<<<"A","C","D","E","F","G","I","L">>, <<"C","D","A","L","I","E","F","G">>>>,
     <<<<"A","C","D","E","F","G","I","J">>, <<"C","D","A","J","I","E","F","G">>>>,
     <<<<"A","C","D","E","F","G","H","L">>, <<"C","D","A","L","E","F","G","H">>>>,
     <<<<"A","C","D","E","F","G","H","K">>, <<"C","D","A","K","E","F","G","H">>>>,
     <<<<"A","C","D","E","F","G","H","J">>, <<"C","D","A","J","E","F","G","H">>>>,
     <<<<"A","C","D","E","F","G","H","I">>, <<"C","D","A","I","E","F","G","H">>>>,
     <<<<"A","B","G","H","I","J","K","L">>, <<"B","G","A","K","I","H","J","L">>>>,
     <<<<"A","B","F","H","I","J","K","L">>, <<"B","F","A","K","I","H","J","L">>>>,
     <<<<"A","B","F","G","I","J","K","L">>, <<"B","F","A","K","I","G","J","L">>>>,
     <<<<"A","B","F","G","H","J","K","L">>, <<"B","F","A","K","J","G","H","L">>>>,
     <<<<"A","B","F","G","H","I","K","L">>, <<"B","F","A","K","I","G","H","L">>>>,
     <<<<"A","B","F","G","H","I","J","K">>, <<"B","F","A","J","I","G","H","K">>>>,
     <<<<"A","B","E","H","I","J","K","L">>, <<"B","E","A","K","I","H","J","L">>>>,
     <<<<"A","B","E","G","I","J","K","L">>, <<"B","E","A","K","I","G","J","L">>>>,
     <<<<"A","B","E","G","H","J","K","L">>, <<"B","E","A","K","J","G","H","L">>>>,
     <<<<"A","B","E","G","H","I","K","L">>, <<"B","E","A","K","I","G","H","L">>>>,
     <<<<"A","B","E","G","H","I","J","K">>, <<"B","E","A","J","I","G","H","K">>>>,
     <<<<"A","B","E","F","I","J","K","L">>, <<"B","E","A","K","I","F","J","L">>>>,
     <<<<"A","B","E","F","H","J","K","L">>, <<"B","E","A","K","J","F","H","L">>>>,
     <<<<"A","B","E","F","H","I","K","L">>, <<"B","E","A","K","I","F","H","L">>>>,
     <<<<"A","B","E","F","H","I","J","K">>, <<"B","E","A","J","I","F","H","K">>>>,
     <<<<"A","B","E","F","G","J","K","L">>, <<"B","E","A","K","J","F","G","L">>>>,
     <<<<"A","B","E","F","G","I","K","L">>, <<"B","E","A","K","I","F","G","L">>>>,
     <<<<"A","B","E","F","G","I","J","K">>, <<"B","E","A","J","I","F","G","K">>>>,
     <<<<"A","B","E","F","G","H","K","L">>, <<"B","E","A","K","F","G","H","L">>>>,
     <<<<"A","B","E","F","G","H","J","K">>, <<"B","E","A","J","F","G","H","K">>>>,
     <<<<"A","B","E","F","G","H","I","L">>, <<"B","E","A","L","I","F","G","H">>>>,
     <<<<"A","B","E","F","G","H","I","J">>, <<"B","E","A","J","I","F","G","H">>>>,
     <<<<"A","B","D","H","I","J","K","L">>, <<"B","D","A","K","I","H","J","L">>>>,
     <<<<"A","B","D","G","I","J","K","L">>, <<"B","D","A","K","I","G","J","L">>>>,
     <<<<"A","B","D","G","H","J","K","L">>, <<"B","D","A","K","J","G","H","L">>>>,
     <<<<"A","B","D","G","H","I","K","L">>, <<"B","D","A","K","I","G","H","L">>>>,
     <<<<"A","B","D","G","H","I","J","K">>, <<"B","D","A","J","I","G","H","K">>>>,
     <<<<"A","B","D","F","I","J","K","L">>, <<"B","D","A","K","I","F","J","L">>>>,
     <<<<"A","B","D","F","H","J","K","L">>, <<"B","D","A","K","J","F","H","L">>>>,
     <<<<"A","B","D","F","H","I","K","L">>, <<"B","D","A","K","I","F","H","L">>>>,
     <<<<"A","B","D","F","H","I","J","K">>, <<"B","D","A","J","I","F","H","K">>>>,
     <<<<"A","B","D","F","G","J","K","L">>, <<"B","D","A","K","J","F","G","L">>>>,
     <<<<"A","B","D","F","G","I","K","L">>, <<"B","D","A","K","I","F","G","L">>>>,
     <<<<"A","B","D","F","G","I","J","K">>, <<"B","D","A","J","I","F","G","K">>>>,
     <<<<"A","B","D","F","G","H","K","L">>, <<"B","D","A","K","F","G","H","L">>>>,
     <<<<"A","B","D","F","G","H","J","K">>, <<"B","D","A","J","F","G","H","K">>>>,
     <<<<"A","B","D","F","G","H","I","L">>, <<"B","D","A","L","I","F","G","H">>>>,
     <<<<"A","B","D","F","G","H","I","J">>, <<"B","D","A","J","I","F","G","H">>>>,
     <<<<"A","B","D","E","I","J","K","L">>, <<"B","D","A","K","I","E","J","L">>>>,
     <<<<"A","B","D","E","H","J","K","L">>, <<"B","D","A","K","J","E","H","L">>>>,
     <<<<"A","B","D","E","H","I","K","L">>, <<"B","D","A","K","I","E","H","L">>>>,
     <<<<"A","B","D","E","H","I","J","K">>, <<"B","D","A","J","I","E","H","K">>>>,
     <<<<"A","B","D","E","G","J","K","L">>, <<"B","D","A","K","J","E","G","L">>>>,
     <<<<"A","B","D","E","G","I","K","L">>, <<"B","D","A","K","I","E","G","L">>>>,
     <<<<"A","B","D","E","G","I","J","K">>, <<"B","D","A","J","I","E","G","K">>>>,
     <<<<"A","B","D","E","G","H","K","L">>, <<"B","D","A","K","E","G","H","L">>>>,
     <<<<"A","B","D","E","G","H","J","K">>, <<"B","D","A","J","E","G","H","K">>>>,
     <<<<"A","B","D","E","G","H","I","L">>, <<"B","D","A","L","I","E","G","H">>>>,
     <<<<"A","B","D","E","G","H","I","J">>, <<"B","D","A","J","I","E","G","H">>>>,
     <<<<"A","B","D","E","F","J","K","L">>, <<"B","D","A","K","J","E","F","L">>>>,
     <<<<"A","B","D","E","F","I","K","L">>, <<"B","D","A","K","I","E","F","L">>>>,
     <<<<"A","B","D","E","F","I","J","K">>, <<"B","D","A","J","I","E","F","K">>>>,
     <<<<"A","B","D","E","F","H","K","L">>, <<"B","D","A","K","E","F","H","L">>>>,
     <<<<"A","B","D","E","F","H","J","K">>, <<"B","D","A","J","E","F","H","K">>>>,
     <<<<"A","B","D","E","F","H","I","L">>, <<"B","D","A","L","I","E","F","H">>>>,
     <<<<"A","B","D","E","F","H","I","J">>, <<"B","D","A","J","I","E","F","H">>>>,
     <<<<"A","B","D","E","F","G","K","L">>, <<"B","D","A","K","E","F","G","L">>>>,
     <<<<"A","B","D","E","F","G","J","K">>, <<"B","D","A","J","E","F","G","K">>>>,
     <<<<"A","B","D","E","F","G","I","L">>, <<"B","D","A","L","I","E","F","G">>>>,
     <<<<"A","B","D","E","F","G","I","J">>, <<"B","D","A","J","I","E","F","G">>>>,
     <<<<"A","B","D","E","F","G","H","L">>, <<"B","D","A","L","E","F","G","H">>>>,
     <<<<"A","B","D","E","F","G","H","K">>, <<"B","D","A","K","E","F","G","H">>>>,
     <<<<"A","B","D","E","F","G","H","J">>, <<"B","D","A","J","E","F","G","H">>>>,
     <<<<"A","B","D","E","F","G","H","I">>, <<"B","D","A","I","E","F","G","H">>>>,
     <<<<"A","B","C","G","H","I","J","K">>, <<"B","C","A","J","I","G","H","K">>>>,
     <<<<"A","B","C","G","H","I","K","L">>, <<"B","C","A","K","I","G","H","L">>>>,
     <<<<"A","B","C","G","H","J","K","L">>, <<"B","C","A","K","J","G","H","L">>>>,
     <<<<"A","B","C","G","I","J","K","L">>, <<"B","C","A","K","I","G","J","L">>>>,
     <<<<"A","B","C","H","I","J","K","L">>, <<"B","C","A","K","I","H","J","L">>>>,
     <<<<"A","B","C","F","H","I","J","K">>, <<"B","C","A","J","I","F","H","K">>>>,
     <<<<"A","B","C","F","H","I","K","L">>, <<"B","C","A","K","I","F","H","L">>>>,
     <<<<"A","B","C","F","H","J","K","L">>, <<"B","C","A","K","J","F","H","L">>>>,
     <<<<"A","B","C","F","I","J","K","L">>, <<"B","C","A","K","I","F","J","L">>>>,
     <<<<"A","B","C","F","G","H","I","J">>, <<"B","C","A","J","I","F","G","H">>>>,
     <<<<"A","B","C","F","G","H","I","K">>, <<"B","C","A","K","I","F","G","H">>>>,
     <<<<"A","B","C","F","G","H","J","K">>, <<"B","C","A","J","F","G","H","K">>>>,
     <<<<"A","B","C","F","G","H","I","L">>, <<"B","C","A","L","I","F","G","H">>>>,
     <<<<"A","B","C","F","G","H","K","L">>, <<"B","C","A","K","F","G","H","L">>>>,
     <<<<"A","B","C","F","G","I","J","K">>, <<"B","C","A","J","I","F","G","K">>>>,
     <<<<"A","B","C","F","G","I","K","L">>, <<"B","C","A","K","I","F","G","L">>>>,
     <<<<"A","B","C","F","G","J","K","L">>, <<"B","C","A","K","J","F","G","L">>>>,
     <<<<"A","B","C","E","H","I","J","K">>, <<"B","C","A","J","I","E","H","K">>>>,
     <<<<"A","B","C","E","H","I","K","L">>, <<"B","C","A","K","I","E","H","L">>>>,
     <<<<"A","B","C","E","H","J","K","L">>, <<"B","C","A","K","J","E","H","L">>>>,
     <<<<"A","B","C","E","I","J","K","L">>, <<"B","C","A","K","I","E","J","L">>>>,
     <<<<"A","B","C","E","G","H","I","J">>, <<"B","C","A","J","I","E","G","H">>>>,
     <<<<"A","B","C","E","G","H","I","K">>, <<"B","C","A","K","I","E","G","H">>>>,
     <<<<"A","B","C","E","G","H","J","K">>, <<"B","C","A","J","E","G","H","K">>>>,
     <<<<"A","B","C","E","G","H","I","L">>, <<"B","C","A","L","I","E","G","H">>>>,
     <<<<"A","B","C","E","G","H","K","L">>, <<"B","C","A","K","E","G","H","L">>>>,
     <<<<"A","B","C","E","G","I","J","K">>, <<"B","C","A","J","I","E","G","K">>>>,
     <<<<"A","B","C","E","G","I","K","L">>, <<"B","C","A","K","I","E","G","L">>>>,
     <<<<"A","B","C","E","G","J","K","L">>, <<"B","C","A","K","J","E","G","L">>>>,
     <<<<"A","B","C","E","F","H","I","J">>, <<"B","C","A","J","I","E","F","H">>>>,
     <<<<"A","B","C","E","F","H","I","K">>, <<"B","C","A","K","I","E","F","H">>>>,
     <<<<"A","B","C","E","F","H","J","K">>, <<"B","C","A","J","E","F","H","K">>>>,
     <<<<"A","B","C","E","F","H","I","L">>, <<"B","C","A","L","I","E","F","H">>>>,
     <<<<"A","B","C","E","F","H","K","L">>, <<"B","C","A","K","E","F","H","L">>>>,
     <<<<"A","B","C","E","F","I","J","K">>, <<"B","C","A","J","I","E","F","K">>>>,
     <<<<"A","B","C","E","F","I","K","L">>, <<"B","C","A","K","I","E","F","L">>>>,
     <<<<"A","B","C","E","F","J","K","L">>, <<"B","C","A","K","J","E","F","L">>>>,
     <<<<"A","B","C","E","F","G","H","I">>, <<"B","C","A","I","E","F","G","H">>>>,
     <<<<"A","B","C","E","F","G","H","J">>, <<"B","C","A","J","E","F","G","H">>>>,
     <<<<"A","B","C","E","F","G","H","K">>, <<"B","C","A","K","E","F","G","H">>>>,
     <<<<"A","B","C","E","F","G","H","L">>, <<"B","C","A","L","E","F","G","H">>>>,
     <<<<"A","B","C","E","F","G","I","J">>, <<"B","C","A","J","I","E","F","G">>>>,
     <<<<"A","B","C","E","F","G","I","K">>, <<"B","C","A","K","I","E","F","G">>>>,
     <<<<"A","B","C","E","F","G","I","L">>, <<"B","C","A","L","I","E","F","G">>>>,
     <<<<"A","B","C","E","F","G","J","K">>, <<"B","C","A","J","E","F","G","K">>>>,
     <<<<"A","B","C","E","F","G","K","L">>, <<"B","C","A","K","E","F","G","L">>>>,
     <<<<"A","B","C","D","H","I","J","K">>, <<"B","C","A","J","I","D","H","K">>>>,
     <<<<"A","B","C","D","H","I","K","L">>, <<"B","C","A","K","I","D","H","L">>>>,
     <<<<"A","B","C","D","H","J","K","L">>, <<"B","C","A","K","J","D","H","L">>>>,
     <<<<"A","B","C","D","I","J","K","L">>, <<"B","C","A","K","I","D","J","L">>>>,
     <<<<"A","B","C","D","G","H","I","J">>, <<"B","C","A","J","I","D","G","H">>>>,
     <<<<"A","B","C","D","G","H","I","K">>, <<"B","C","A","K","I","D","G","H">>>>,
     <<<<"A","B","C","D","G","H","J","K">>, <<"B","C","A","J","D","G","H","K">>>>,
     <<<<"A","B","C","D","G","H","I","L">>, <<"B","C","A","L","I","D","G","H">>>>,
     <<<<"A","B","C","D","G","H","K","L">>, <<"B","C","A","K","D","G","H","L">>>>,
     <<<<"A","B","C","D","G","I","J","K">>, <<"B","C","A","J","I","D","G","K">>>>,
     <<<<"A","B","C","D","G","I","K","L">>, <<"B","C","A","K","I","D","G","L">>>>,
     <<<<"A","B","C","D","G","J","K","L">>, <<"B","C","A","K","J","D","G","L">>>>,
     <<<<"A","B","C","D","F","H","I","J">>, <<"B","C","A","J","I","D","F","H">>>>,
     <<<<"A","B","C","D","F","H","I","K">>, <<"B","C","A","K","I","D","F","H">>>>,
     <<<<"A","B","C","D","F","H","J","K">>, <<"B","C","A","J","D","F","H","K">>>>,
     <<<<"A","B","C","D","F","H","I","L">>, <<"B","C","A","L","I","D","F","H">>>>,
     <<<<"A","B","C","D","F","H","K","L">>, <<"B","C","A","K","D","F","H","L">>>>,
     <<<<"A","B","C","D","F","I","J","K">>, <<"B","C","A","J","I","D","F","K">>>>,
     <<<<"A","B","C","D","F","I","K","L">>, <<"B","C","A","K","I","D","F","L">>>>,
     <<<<"A","B","C","D","F","J","K","L">>, <<"B","C","A","K","J","D","F","L">>>>,
     <<<<"A","B","C","D","F","G","H","I">>, <<"B","C","A","I","D","F","G","H">>>>,
     <<<<"A","B","C","D","F","G","H","J">>, <<"B","C","A","J","D","F","G","H">>>>,
     <<<<"A","B","C","D","F","G","H","K">>, <<"B","C","A","K","D","F","G","H">>>>,
     <<<<"A","B","C","D","F","G","H","L">>, <<"B","C","A","L","D","F","G","H">>>>,
     <<<<"A","B","C","D","F","G","I","J">>, <<"B","C","A","J","I","D","F","G">>>>,
     <<<<"A","B","C","D","F","G","I","K">>, <<"B","C","A","K","I","D","F","G">>>>,
     <<<<"A","B","C","D","F","G","I","L">>, <<"B","C","A","L","I","D","F","G">>>>,
     <<<<"A","B","C","D","F","G","J","K">>, <<"B","C","A","J","D","F","G","K">>>>,
     <<<<"A","B","C","D","F","G","K","L">>, <<"B","C","A","K","D","F","G","L">>>>,
     <<<<"A","B","C","D","E","H","I","J">>, <<"B","C","A","J","I","D","E","H">>>>,
     <<<<"A","B","C","D","E","H","I","K">>, <<"B","C","A","K","I","D","E","H">>>>,
     <<<<"A","B","C","D","E","H","J","K">>, <<"B","C","A","J","D","E","H","K">>>>,
     <<<<"A","B","C","D","E","H","I","L">>, <<"B","C","A","L","I","D","E","H">>>>,
     <<<<"A","B","C","D","E","H","K","L">>, <<"B","C","A","K","D","E","H","L">>>>,
     <<<<"A","B","C","D","E","I","J","K">>, <<"B","C","A","J","I","D","E","K">>>>,
     <<<<"A","B","C","D","E","I","K","L">>, <<"B","C","A","K","I","D","E","L">>>>,
     <<<<"A","B","C","D","E","J","K","L">>, <<"B","C","A","K","J","D","E","L">>>>,
     <<<<"A","B","C","D","E","G","H","I">>, <<"B","C","A","I","D","E","G","H">>>>,
     <<<<"A","B","C","D","E","G","H","J">>, <<"B","C","A","J","D","E","G","H">>>>,
     <<<<"A","B","C","D","E","G","H","K">>, <<"B","C","A","K","D","E","G","H">>>>,
     <<<<"A","B","C","D","E","G","H","L">>, <<"B","C","A","L","D","E","G","H">>>>,
     <<<<"A","B","C","D","E","G","I","J">>, <<"B","C","A","J","I","D","E","G">>>>,
     <<<<"A","B","C","D","E","G","I","K">>, <<"B","C","A","K","I","D","E","G">>>>,
     <<<<"A","B","C","D","E","G","I","L">>, <<"B","C","A","L","I","D","E","G">>>>,
     <<<<"A","B","C","D","E","G","J","K">>, <<"B","C","A","J","D","E","G","K">>>>,
     <<<<"A","B","C","D","E","G","K","L">>, <<"B","C","A","K","D","E","G","L">>>>,
     <<<<"A","B","C","D","E","F","H","I">>, <<"B","C","A","I","D","E","F","H">>>>,
     <<<<"A","B","C","D","E","F","H","J">>, <<"B","C","A","J","D","E","F","H">>>>,
     <<<<"A","B","C","D","E","F","H","K">>, <<"B","C","A","K","D","E","F","H">>>>,
     <<<<"A","B","C","D","E","F","H","L">>, <<"B","C","A","L","D","E","F","H">>>>,
     <<<<"A","B","C","D","E","F","I","J">>, <<"B","C","A","J","I","D","E","F">>>>,
     <<<<"A","B","C","D","E","F","I","K">>, <<"B","C","A","K","I","D","E","F">>>>,
     <<<<"A","B","C","D","E","F","I","L">>, <<"B","C","A","L","I","D","E","F">>>>,
     <<<<"A","B","C","D","E","F","J","K">>, <<"B","C","A","J","D","E","F","K">>>>,
     <<<<"A","B","C","D","E","F","K","L">>, <<"B","C","A","K","D","E","F","L">>>>,
     <<<<"A","B","C","D","E","F","G","H">>, <<"B","C","A","H","D","E","F","G">>>>,
     <<<<"A","B","C","D","E","F","G","I">>, <<"B","C","A","I","D","E","F","G">>>>,
     <<<<"A","B","C","D","E","F","G","J">>, <<"B","C","A","J","D","E","F","G">>>>,
     <<<<"A","B","C","D","E","F","G","K">>, <<"B","C","A","K","D","E","F","G">>>>,
     <<<<"A","B","C","D","E","F","G","L">>, <<"B","C","A","L","D","E","F","G">>>>
  >>

\* THIRD_PLACE_TABLE.get(key): the HashMap built from the rows (a later
\* insert of the same key replaces an earlier one).
THIRD_PLACE_TABLE_get(key) ==
    LET hits == {i \in DOMAIN THIRD_PLACE_TABLE_ROWS : THIRD_PLACE_TABLE_ROWS[i][1] = key}
    IN IF hits = {} THEN None
       ELSE Some(THIRD_PLACE_TABLE_ROWS[CHOOSE i \in hits : \A j \in hits : j <= i][2])

\* get_third_place_assignments: the table first, the solver on a miss.
RECURSIVE backtrack_assign(_, _, _, _)
RECURSIVE backtrack_try_pool(_, _, _, _, _)
RECURSIVE backtrack_try_pool_no_undo(_, _, _, _, _)

\* backtrack_try_pool without the `used[qual_idx] = false` undo step.
backtrack_try_pool_no_undo(p, slot_idx, qualifying, assignments, used) ==
    IF p > Len(THIRD_PLACE_POOLS[slot_idx + 1])
    THEN [ok |-> FALSE, assignments |-> assignments]
    ELSE LET pool_group == THIRD_PLACE_POOLS[slot_idx + 1][p]
             qual_idx == position(qualifying, pool_group)
         IN IF qual_idx # 0 /\ ~used[qual_idx]
            THEN LET r == backtrack_assign(slot_idx + 1, qualifying,
                              [assignments EXCEPT ![slot_idx + 1] = pool_group],
                              [used EXCEPT ![qual_idx] = TRUE])
                 IN IF r.ok THEN r
                    ELSE backtrack_try_pool_no_undo(p + 1, slot_idx, qualifying, r.assignments,
                                                    [used EXCEPT ![qual_idx] = TRUE])
            ELSE backtrack_try_pool_no_undo(p + 1, slot_idx, qualifying, assignments, used)

\* The `for &pool_group in pool.iter()` loop of backtrack_assign from pool
\* entry p on; `used` is restored on every dead end, `assignments` keeps the
\* letters written last.
backtrack_try_pool(p, slot_idx, qualifying, assignments, used) ==
    IF p > Len(THIRD_PLACE_POOLS[slot_idx + 1])
    THEN [ok |-> FALSE, assignments |-> assignments]
    ELSE LET pool_group == THIRD_PLACE_POOLS[slot_idx + 1][p]
             qual_idx == position(qualifying, pool_group)
         IN IF qual_idx # 0 /\ ~used[qual_idx]
            THEN LET r == backtrack_assign(slot_idx + 1, qualifying,
                              [assignments EXCEPT ![slot_idx + 1] = pool_group],
                              [used EXCEPT ![qual_idx] = TRUE])
                 IN IF r.ok THEN r
                    ELSE backtrack_try_pool(p + 1, slot_idx, qualifying, r.assignments, used)
            ELSE backtrack_try_pool(p + 1, slot_idx, qualifying, assignments, used)

backtrack_assign(slot_idx, qualifying, assignments, used) ==
    IF slot_idx = 8
    THEN [ok |-> TRUE, assignments |-> assignments]
    ELSE backtrack_try_pool(1, slot_idx, qualifying, assignments, used)

compute_third_place_assignments(qualifying_groups) ==
    IF Len(qualifying_groups) # 8 THEN None
    ELSE LET r == backtrack_assign(0, qualifying_groups,
                      [i \in 1..8 |-> " "], [i \in 1..8 |-> FALSE])
         IN IF r.ok THEN Some(r.assignments) ELSE None

get_third_place_assignments(qualifying_groups) ==
    LET hit == THIRD_PLACE_TABLE_get(qualifying_groups)
    IN IF hit.is_some THEN hit
       ELSE compute_third_place_assignments(qualifying_groups)

(***************************************************************************)
(* Third-place ranking (wc-core/tiebreaker.rs).                            *)
(***************************************************************************)
goal_difference(s) == s.goals_for - s.goals_against

\* A ranking of the third-placed teams on points alone, then team id.
third_before_points_only(a, b) ==
    IF a.points # b.points THEN a.points > b.points ELSE a.team_id < b.team_id

\* The comparator of rank_third_placed_teams: a is ordered before b.
third_before(a, b) ==
    IF a.points # b.points THEN a.points > b.points
    ELSE IF goal_difference(a) # goal_difference(b)
         THEN goal_difference(a) > goal_difference(b)
    ELSE IF a.goals_for # b.goals_for THEN a.goals_for > b.goals_for
    ELSE a.team_id < b.team_id

rank_third_placed_teams(third_place_standings) ==
    SortSeq(third_place_standings, third_before)

(***************************************************************************)
(* Round-of-32 pairings (wc-core/bracket.rs, wc-simulation/engine.rs).     *)
(***************************************************************************)
\* HashMap<char, TeamId> collected from a sequence of (letter, team): the
\* last pair of a letter wins.  Missing stands for a failed get().
Missing == 0 - 1

map_get(pairs, c) ==
    LET hits == {i \in DOMAIN pairs : pairs[i][1] = c}
    IN IF hits = {} THEN Missing
       ELSE pairs[CHOOSE i \in hits : \A j \in hits : j <= i][2]

letter_before(a, b) == to_index(a) < to_index(b)

\* resolve_slot reading the winners map for a RunnerUp source.
resolve_slot_runner_up_from_winners(source, winners, runners_up, assignments, third_place_map) ==
    IF source.kind = "GroupTeam"
    THEN CASE source.position = "Winner" -> map_get(winners, source.group)
           [] source.position = "RunnerUp" -> map_get(winners, source.group)
           [] OTHER -> map_get(third_place_map, source.group)
    ELSE map_get(third_place_map, assignments[source.slot_index + 1])

resolve_slot(source, winners, runners_up, assignments, third_place_map) ==
    IF source.kind = "GroupTeam"
    THEN CASE source.position = "Winner" -> map_get(winners, source.group)
           [] source.position = "RunnerUp" -> map_get(runners_up, source.group)
           [] OTHER -> map_get(third_place_map, source.group)
    ELSE map_get(third_place_map, assignments[source.slot_index + 1])

\* The sorted key of the qualifying third-placed groups.
qualifying_key(qualifying_thirds) ==
    SortSeq([i \in DOMAIN qualifying_thirds |-> qualifying_thirds[i][1]], letter_before)

\* bracket::build_r32_pairings once the assignment is known.
pairings_for(winners, runners_up, qualifying_thirds, assignments) ==
    table([k \in DOMAIN R32_BRACKET |->
        << resolve_slot(R32_BRACKET[k].team_a, winners, runners_up, assignments, qualifying_thirds),
           resolve_slot(R32_BRACKET[k].team_b, winners, runners_up, assignments, qualifying_thirds) >>])

\* SimulationEngine::build_r32_pairings: the inputs it hands to the bracket module.
engine_winners_from_second(results) ==
    table([i \in DOMAIN results |-> <<results[i].group_id, results[i].standings[2].team_id>>])

engine_winners(results) ==
    table([i \in DOMAIN results |-> <<results[i].group_id, results[i].standings[1].team_id>>])

engine_runners_up(results) ==
    table([i \in DOMAIN results |-> <<results[i].group_id, results[i].standings[2].team_id>>])

engine_ranked_thirds(results) ==
    rank_third_placed_teams([i \in DOMAIN results |-> results[i].standings[3]])

QUALIFYING_THIRDS == 8

engine_qualifying_thirds(results) ==
    LET ranked == engine_ranked_thirds(results)
        n == IF Len(ranked) < QUALIFYING_THIRDS THEN Len(ranked) ELSE QUALIFYING_THIRDS
    IN table([i \in 1..n |-> <<ranked[i].group_id, ranked[i].team_id>>])

(***************************************************************************)
(* Inputs of the bracket resolver: tournaments and finished group stages.  *)
(***************************************************************************)
Group(id, teams) == [id |-> id, teams |-> teams]

\* create_test_tournament: group i holds teams 4i .. 4i+3.
BlockTournament ==
    table([i \in 1..NUM_GROUPS |->
        Group(from_index(i - 1),
              table([k \in 1..TEAMS_PER_GROUP |-> (i - 1) * TEAMS_PER_GROUP + (k - 1)]))])

\* Another valid draw: group i holds teams i, i+12, i+24, i+36 (less one).
StridedTournament ==
    table([i \in 1..NUM_GROUPS |->
        Group(from_index(i - 1),
              table([k \in 1..TEAMS_PER_GROUP |-> (i - 1) + (k - 1) * NUM_GROUPS]))])

Tournaments == {BlockTournament, StridedTournament}

Standing(team, group, w, d, l, gf, ga) ==
    [team_id |-> team, group_id |-> group, played |-> w + d + l, wins |-> w,
     draws |-> d, losses |-> l, goals_for |-> gf, goals_against |-> ga,
     points |-> 3 * w + d]

\* Which member of Group.teams finishes first, second, third and fourth.
PlacingOrders == { <<1, 2, 3, 4>>, <<4, 2, 1, 3>> }

\* Final standings of a group whose six matches all ended 1-0 for the
\* better-placed team, except that with `drawn` the first- and third-placed
\* teams drew 0-0 (the third then has 4 points instead of 3).
GroupOutcome(g, order, drawn) ==
    [group_id |-> g.id,
     standings |->
       << IF drawn THEN Standing(g.teams[order[1]], g.id, 2, 1, 0, 2, 0)
                   ELSE Standing(g.teams[order[1]], g.id, 3, 0, 0, 3, 0),
          Standing(g.teams[order[2]], g.id, 2, 0, 1, 2, 1),
          IF drawn THEN Standing(g.teams[order[3]], g.id, 1, 1, 1, 1, 1)
                   ELSE Standing(g.teams[order[3]], g.id, 1, 0, 2, 1, 2),
          Standing(g.teams[order[4]], g.id, 0, 0, 3, 0, 3) >>]

NoPairings == <<>>

BracketStart ==
    /\ tournament \in Tournaments
    /\ \E order \in PlacingOrders, drawn \in SUBSET (1..NUM_GROUPS) :
          group_results = [i \in 1..NUM_GROUPS |->
                              GroupOutcome(tournament[i], order, i \in drawn)]
    /\ r32_pairings = NoPairings
    /\ third_assignments = None
    /\ solver_result = None
    /\ bpc = [engine |-> "groups_done", solver |-> "idle"]

\* SimulationEngine::build_r32_pairings followed by bracket::build_r32_pairings.
BuildR32Pairings ==
    /\ bpc.engine = "groups_done"
    /\ LET winners == engine_winners(group_results)
           runners_up == engine_runners_up(group_results)
           qualifying_thirds == engine_qualifying_thirds(group_results)
           key == qualifying_key(qualifying_thirds)
           assigned == get_third_place_assignments(key)
       IN IF ~assigned.is_some
          THEN /\ bpc' = [bpc EXCEPT !.engine = "panicked"]
               /\ UNCHANGED <<r32_pairings, third_assignments>>
          ELSE LET pairs == pairings_for(winners, runners_up, qualifying_thirds, assigned.value)
               IN /\ third_assignments' = assigned
                  /\ IF \E k \in DOMAIN pairs : Missing \in {pairs[k][1], pairs[k][2]}
                     THEN /\ bpc' = [bpc EXCEPT !.engine = "panicked"]
                          /\ UNCHANGED r32_pairings
                     ELSE /\ bpc' = [bpc EXCEPT !.engine = "paired"]
                          /\ r32_pairings' = pairs
    /\ UNCHANGED <<tournament, group_results, solver_result>>
    /\ UNCHANGED <<matchVars, aggVars, runnerVars, groupVars,
                   engineVars, validateVars, lateVars>>

\* A direct call of the backtracking solver on the qualifying key.
ComputeThirdPlaceAssignments ==
    /\ bpc.solver = "idle"
    /\ solver_result' = compute_third_place_assignments(
                            qualifying_key(engine_qualifying_thirds(group_results)))
    /\ bpc' = [bpc EXCEPT !.solver = "returned"]
    /\ UNCHANGED <<tournament, group_results, r32_pairings, third_assignments>>
    /\ UNCHANGED <<matchVars, aggVars, runnerVars, groupVars,
                   engineVars, validateVars, lateVars>>

\* The bracket resolver before any group stage was played.
BracketIdle ==
    /\ tournament = BlockTournament
    /\ group_results = <<>>
    /\ r32_pairings = NoPairings
    /\ third_assignments = None
    /\ solver_result = None
    /\ bpc = [engine |-> "idle", solver |-> "idle"]

(***************************************************************************)
(* The match sampler: PredictionStrategy::simulate_match with              *)
(* sample_poisson and simulate_penalties.  The RNG stream is arbitrary:    *)
(* every comparison against a random number can go either way.             *)
(***************************************************************************)
MaxGoalDraws == 2
MaxSuddenDeath == 3
POISSON_CAP == 15
SHOOTOUT_ROUNDS == 5
U8 == 256

\* PenaltyResult::winner
PenaltyResult_winner(p, home_team, away_team) ==
    IF p.home_penalties > p.away_penalties THEN home_team ELSE away_team

\* MatchResult::new
MatchResult_new(home_team, away_team, home_goals, away_goals) ==
    [home_team |-> home_team, away_team |-> away_team,
     home_goals |-> home_goals, away_goals |-> away_goals,
     extra_time |-> FALSE, penalties |-> None]

\* MatchResult::outcome
outcome(r) ==
    IF r.home_goals > r.away_goals THEN "HomeWin"
    ELSE IF r.home_goals < r.away_goals THEN "AwayWin"
    ELSE "Draw"

\* MatchResult::winner
winner(r) ==
    CASE outcome(r) = "HomeWin" -> Some(r.home_team)
      [] outcome(r) = "AwayWin" -> Some(r.away_team)
      [] OTHER -> IF r.penalties.is_some
                  THEN Some(PenaltyResult_winner(r.penalties.value, r.home_team, r.away_team))
                  ELSE None

\* MatchResult::loser
loser(r) ==
    IF winner(r).is_some
    THEN Some(IF winner(r).value = r.home_team THEN r.away_team ELSE r.home_team)
    ELSE None

\* sample_poisson on a stream whose first `draws` products stay above the
\* threshold exp(-lambda): k counts them and stops at the cap.
sample_poisson(draws) == IF draws >= POISSON_CAP THEN POISSON_CAP ELSE draws

\* The numbers of above-threshold draws the RNG stream may hold.
GoalDraws == (0..MaxGoalDraws) \cup {POISSON_CAP, POISSON_CAP + 1}

\* The test `ctx.is_knockout && home_goals == away_goals` of simulate_match.
needs_extra_time(is_knockout, home_goals, away_goals) ==
    is_knockout /\ home_goals = away_goals

\* A sudden-death loop that is never entered.
sudden_death_skipped(home_score, away_score) == FALSE

\* The condition of the sudden-death loop of simulate_penalties.
sudden_death_condition(home_score, away_score) == home_score = away_score

\* A kick: the score after `gen_f64(rng) < BASE_CONVERSION_RATE` came out as converts.
kick(score, converts) == IF converts THEN (score + 1) % U8 ELSE score

NoShootout == [round |-> 0, home_score |-> 0, away_score |-> 0, sudden |-> 0]
NoContext == [home_team |-> 0, away_team |-> 1, is_knockout |-> FALSE]

MatchIdle ==
    /\ ctx = NoContext
    /\ result = MatchResult_new(0, 1, 0, 0)
    /\ shootout = NoShootout
    /\ mpc = "idle"

MatchStart ==
    /\ ctx \in {[home_team |-> h, away_team |-> a, is_knockout |-> k] :
                  h \in {0, 5}, a \in {1}, k \in BOOLEAN}
    /\ result = MatchResult_new(ctx.home_team, ctx.away_team, 0, 0)
    /\ shootout = NoShootout
    /\ mpc = "regulation"

\* simulate_match up to the test for extra time.
SampleRegulation ==
    /\ mpc = "regulation"
    /\ \E dh \in GoalDraws, da \in GoalDraws :
          LET home_goals == sample_poisson(dh)
              away_goals == sample_poisson(da)
          IN /\ result' = MatchResult_new(ctx.home_team, ctx.away_team, home_goals, away_goals)
             /\ mpc' = IF needs_extra_time(ctx.is_knockout, home_goals, away_goals)
                       THEN "extra_time" ELSE "done"
    /\ UNCHANGED <<ctx, shootout>>
    /\ UNCHANGED <<bracketVars, aggVars, runnerVars, groupVars,
                   engineVars, validateVars, lateVars>>

\* simulate_match: extra time, up to the test for penalties.
SampleExtraTime ==
    /\ mpc = "extra_time"
    /\ \E dh \in GoalDraws, da \in GoalDraws :
          LET home_goals == result.home_goals + sample_poisson(dh)
              away_goals == result.away_goals + sample_poisson(da)
          IN /\ result' = [result EXCEPT !.extra_time = TRUE,
                                         !.home_goals = home_goals,
                                         !.away_goals = away_goals]
             /\ mpc' = IF home_goals = away_goals THEN "shootout" ELSE "done"
    /\ shootout' = NoShootout
    /\ UNCHANGED ctx
    /\ UNCHANGED <<bracketVars, aggVars, runnerVars, groupVars,
                   engineVars, validateVars, lateVars>>

\* simulate_penalties: the home kick of one of the first five rounds.
PenaltyHomeKick ==
    /\ mpc = "shootout"
    /\ shootout.round < SHOOTOUT_ROUNDS
    /\ \E home_converts \in BOOLEAN :
          shootout' = [shootout EXCEPT !.home_score = kick(@, home_converts)]
    /\ mpc' = "shootout_away"
    /\ UNCHANGED <<ctx, result>>
    /\ UNCHANGED <<bracketVars, aggVars, runnerVars, groupVars,
                   engineVars, validateVars, lateVars>>

\* simulate_penalties: the away kick of the round and the early-termination
\* test that ends the round.
PenaltyAwayKick ==
    /\ mpc = "shootout_away"
    /\ \E away_converts \in BOOLEAN :
          LET home_score == shootout.home_score
              away_score == kick(shootout.away_score, away_converts)
              remaining == 4 - shootout.round
              break == \/ home_score > away_score + remaining
                       \/ away_score > home_score + remaining
          IN /\ shootout' = [shootout EXCEPT !.away_score = away_score,
                                             !.round = IF break THEN @ ELSE @ + 1]
             /\ mpc' = IF break \/ shootout.round + 1 = SHOOTOUT_ROUNDS
                       THEN "sudden_death" ELSE "shootout"
    /\ UNCHANGED <<ctx, result>>
    /\ UNCHANGED <<bracketVars, aggVars, runnerVars, groupVars,
                   engineVars, validateVars, lateVars>>

\* simulate_penalties: one iteration of the sudden-death loop.
SuddenDeathRound ==
    /\ mpc = "sudden_death"
    /\ sudden_death_condition(shootout.home_score, shootout.away_score)
    /\ shootout.sudden < MaxSuddenDeath
    /\ \E home_converts \in BOOLEAN, away_converts \in BOOLEAN :
          shootout' = [shootout EXCEPT !.home_score = kick(@, home_converts),
                                       !.away_score = kick(@, away_converts),
                                       !.sudden = @ + 1]
    /\ UNCHANGED <<ctx, result, mpc>>
    /\ UNCHANGED <<bracketVars, aggVars, runnerVars, groupVars,
                   engineVars, validateVars, lateVars>>

\* simulate_penalties returns and simulate_match stores the PenaltyResult.
ReturnPenalties ==
    /\ mpc = "sudden_death"
    /\ ~sudden_death_condition(shootout.home_score, shootout.away_score)
    /\ result' = [result EXCEPT !.penalties =
                     Some([home_penalties |-> shootout.home_score,
                           away_penalties |-> shootout.away_score])]
    /\ mpc' = "done"
    /\ UNCHANGED <<ctx, shootout>>
    /\ UNCHANGED <<bracketVars, aggVars, runnerVars, groupVars,
                   engineVars, validateVars, lateVars>>

(***************************************************************************)
(* The group stage of one group: Group::generate_fixtures, the six matches *)
(* and the standings of wc-core/tiebreaker.rs (calculate_standings,        *)
(* resolve_standings).                                                     *)
(***************************************************************************)
\* MatchResult::goal_difference, goals_for, goals_against and points_for
MatchResult_goal_difference(m, team) ==
    IF team = m.home_team THEN m.home_goals - m.away_goals
    ELSE IF team = m.away_team THEN m.away_goals - m.home_goals
    ELSE 0

goals_for(m, team) ==
    IF team = m.home_team THEN m.home_goals
    ELSE IF team = m.away_team THEN m.away_goals
    ELSE 0

goals_against(m, team) ==
    IF team = m.home_team THEN m.away_goals
    ELSE IF team = m.away_team THEN m.home_goals
    ELSE 0

points_for(m, team) ==
    IF team = m.home_team
    THEN (CASE outcome(m) = "HomeWin" -> 3 [] outcome(m) = "Draw" -> 1 [] OTHER -> 0)
    ELSE IF team = m.away_team
    THEN (CASE outcome(m) = "AwayWin" -> 3 [] outcome(m) = "Draw" -> 1 [] OTHER -> 0)
    ELSE 0

\* Group::generate_fixtures
generate_fixtures(g) ==
    << <<g.teams[1], g.teams[2]>>, <<g.teams[3], g.teams[4]>>,
       <<g.teams[1], g.teams[3]>>, <<g.teams[2], g.teams[4]>>,
       <<g.teams[1], g.teams[4]>>, <<g.teams[2], g.teams[3]>> >>

\* GroupStanding::new
GroupStanding_new(team_id, group_id) == Standing(team_id, group_id, 0, 0, 0, 0, 0)

\* GroupStanding::add_match
add_match(s, m) ==
    LET pts == points_for(m, s.team_id)
    IN [s EXCEPT !.played = @ + 1,
                 !.goals_for = @ + goals_for(m, s.team_id),
                 !.goals_against = @ + goals_against(m, s.team_id),
                 !.points = @ + pts,
                 !.wins = @ + (IF pts = 3 THEN 1 ELSE 0),
                 !.draws = @ + (IF pts = 1 THEN 1 ELSE 0),
                 !.losses = @ + (IF pts = 0 THEN 1 ELSE 0)]

\* The inner loop of calculate_standings for one standing.
RECURSIVE add_matches(_, _)
add_matches(s, played_matches) ==
    IF played_matches = <<>> THEN s
    ELSE LET m == Head(played_matches)
         IN add_matches(IF m.home_team = s.team_id \/ m.away_team = s.team_id
                        THEN add_match(s, m) ELSE s,
                        Tail(played_matches))

\* calculate_standings
calculate_standings(teams, played_matches, group_id) ==
    table([i \in DOMAIN teams |->
        add_matches(GroupStanding_new(teams[i], group_id), played_matches)])

\* Ord::cmp and Ordering::then_with
cmp(a, b) == IF a < b THEN "Less" ELSE IF a > b THEN "Greater" ELSE "Equal"

then_with(first, second) == IF first # "Equal" THEN first ELSE second

\* A comparison that never consults the mutual match.
compare_head_to_head_skipped(team_a, team_b, played_matches) == "Equal"

\* compare_head_to_head: the first match between the two teams decides.
compare_head_to_head(team_a, team_b, played_matches) ==
    LET mutual == SelectSeq(played_matches, LAMBDA m :
                     \/ m.home_team = team_a.team_id /\ m.away_team = team_b.team_id
                     \/ m.home_team = team_b.team_id /\ m.away_team = team_a.team_id)
    IN IF mutual = <<>> THEN "Equal"
       ELSE LET m == Head(mutual)
                a_points == points_for(m, team_a.team_id)
                b_points == points_for(m, team_b.team_id)
                a_gd == MatchResult_goal_difference(m, team_a.team_id)
                b_gd == MatchResult_goal_difference(m, team_b.team_id)
            IN IF a_points # b_points THEN cmp(b_points, a_points)
               ELSE IF a_gd # b_gd THEN cmp(b_gd, a_gd)
               ELSE cmp(goals_for(m, team_b.team_id), goals_for(m, team_a.team_id))

\* A comparator that goes from points straight to the team id.
resolve_standings_compare_points_only(a, b, played_matches) ==
    then_with(cmp(b.points, a.points), cmp(a.team_id, b.team_id))

\* The comparator of resolve_standings.
resolve_standings_compare(a, b, played_matches) ==
    then_with(cmp(b.points, a.points),
    then_with(cmp(goal_difference(b), goal_difference(a)),
    then_with(cmp(b.goals_for, a.goals_for),
    then_with(compare_head_to_head(a, b, played_matches),
              cmp(a.team_id, b.team_id)))))

\* slice::sort_by on a slice of at most 20 elements is an insertion sort.
\* The standard library inserts from the left (insertion_sort_shift_left)
\* or, in its older merge sort, from the right (insert_head); the two agree
\* whenever the comparator is a total order.
SortBuilds == {"shift_left", "insert_head"}

RECURSIVE insert_tail(_, _, _)
insert_tail(sorted, x, played_matches) ==
    IF sorted = <<>> THEN <<x>>
    ELSE LET last == sorted[Len(sorted)]
         IN IF resolve_standings_compare(x, last, played_matches) = "Less"
            THEN Append(insert_tail(SubSeq(sorted, 1, Len(sorted) - 1), x, played_matches),
                        last)
            ELSE Append(sorted, x)

RECURSIVE insertion_sort_shift_left(_, _, _)
insertion_sort_shift_left(v, n, played_matches) ==
    IF n = 0 THEN <<>>
    ELSE insert_tail(insertion_sort_shift_left(v, n - 1, played_matches), v[n],
                     played_matches)

RECURSIVE insert_head(_, _, _)
insert_head(x, sorted, played_matches) ==
    IF sorted = <<>> THEN <<x>>
    ELSE IF resolve_standings_compare(Head(sorted), x, played_matches) = "Less"
         THEN <<Head(sorted)>> \o insert_head(x, Tail(sorted), played_matches)
         ELSE <<x>> \o sorted

RECURSIVE merge_sort_short(_, _)
merge_sort_short(v, played_matches) ==
    IF v = <<>> THEN <<>>
    ELSE insert_head(Head(v), merge_sort_short(Tail(v), played_matches), played_matches)

\* resolve_standings
resolve_standings(standings, played_matches, build) ==
    IF build = "shift_left"
    THEN insertion_sort_shift_left(standings, Len(standings), played_matches)
    ELSE merge_sort_short(standings, played_matches)

\* The loop of simulate_group: fixture k ends with scores[k].
play_fixtures(g, scores) ==
    table([k \in DOMAIN generate_fixtures(g) |->
        MatchResult_new(generate_fixtures(g)[k][1], generate_fixtures(g)[k][2],
                        scores[k][1], scores[k][2])])

\* The GroupResult simulate_group returns for the played matches.
group_result(g, played_matches, build) ==
    [group_id |-> g.id,
     matches |-> played_matches,
     standings |-> resolve_standings(calculate_standings(g.teams, played_matches, g.id),
                                     played_matches, build)]

\* SimulationEngine::simulate_group
simulate_group(g, scores, build) == group_result(g, play_fixtures(g, scores), build)

\* The scores a group match ends with (regulation time only).
GroupScores == { <<0, 0>>, <<1, 0>>, <<0, 1>>, <<1, 1>>, <<2, 1>>, <<1, 2>>, <<2, 0>> }

\* The groups whose stage is played: ids in and out of the order of Group.teams.
PlayedGroups == { Group("A", <<0, 1, 2, 3>>), Group("C", <<11, 8, 10, 9>>) }

NoGroupResult == [group_id |-> "A", matches |-> <<>>, standings |-> <<>>]

GroupIdle ==
    /\ grp = Group("A", <<0, 1, 2, 3>>)
    /\ grp_matches = <<>>
    /\ grp_result = NoGroupResult
    /\ gpc = "idle"

GroupStart ==
    /\ grp \in PlayedGroups
    /\ grp_matches = <<>>
    /\ grp_result = NoGroupResult
    /\ gpc = "fixtures"

\* simulate_group: the six fixtures are played (is_knockout = false).
PlayGroupMatches ==
    /\ gpc = "fixtures"
    /\ \E scores \in [1..6 -> GroupScores] :
          grp_matches' = play_fixtures(grp, scores)
    /\ gpc' = "played"
    /\ UNCHANGED <<grp, grp_result>>
    /\ UNCHANGED <<bracketVars, matchVars, aggVars, runnerVars,
                   engineVars, validateVars, lateVars>>

\* simulate_group: calculate_standings, resolve_standings, the GroupResult.
ResolveGroup ==
    /\ gpc = "played"
    /\ \E build \in SortBuilds :
          grp_result' = group_result(grp, grp_matches, build)
    /\ gpc' = "resolved"
    /\ UNCHANGED <<grp, grp_matches>>
    /\ UNCHANGED <<bracketVars, matchVars, aggVars, runnerVars,
                   engineVars, validateVars, lateVars>>

(***************************************************************************)
(* One simulated tournament: SimulationEngine::simulate.  A stream is what *)
(* the RNG contributes: how every group finishes and how every knockout    *)
(* match ends.                                                             *)
(***************************************************************************)
\* A finished knockout match, as simulate_match returns it.
played(home_team, away_team, how) ==
    CASE how = "home" -> MatchResult_new(home_team, away_team, 1, 0)
      [] how = "away" -> MatchResult_new(home_team, away_team, 0, 1)
      [] how = "home_pens" ->
            [MatchResult_new(home_team, away_team, 1, 1) EXCEPT
                !.extra_time = TRUE,
                !.penalties = Some([home_penalties |-> 5, away_penalties |-> 4])]
      [] OTHER ->
            [MatchResult_new(home_team, away_team, 1, 1) EXCEPT
                !.extra_time = TRUE,
                !.penalties = Some([home_penalties |-> 3, away_penalties |-> 4])]

\* How the match in `slot` (0-based) of a round ends under a knockout rule.
how_ends(rule, round, slot) ==
    CASE rule = "home" -> "home"
      [] rule = "away" -> "away"
      [] rule = "upset" -> IF round = "final" THEN "away_pens" ELSE "home"
      [] OTHER -> IF slot % 2 = 0 THEN "home_pens" ELSE "away"

KnockoutRules == {"home", "away", "upset", "mixed"}

\* filter_map(|m| m.winner()) and filter_map(|m| m.loser()) over a round.
RECURSIVE filter_map_winner(_)
filter_map_winner(matches) ==
    IF matches = <<>> THEN <<>>
    ELSE (IF winner(Head(matches)).is_some THEN <<winner(Head(matches)).value>> ELSE <<>>)
            \o filter_map_winner(Tail(matches))

RECURSIVE filter_map_loser(_)
filter_map_loser(matches) ==
    IF matches = <<>> THEN <<>>
    ELSE (IF loser(Head(matches)).is_some THEN <<loser(Head(matches)).value>> ELSE <<>>)
            \o filter_map_loser(Tail(matches))

\* A round that pairs the first half of the teams with the second half.
simulate_knockout_round_across_halves(teams, round, rule) ==
    table([k \in 1..(Len(teams) \div 2) |->
        played(teams[k], teams[k + (Len(teams) \div 2)], how_ends(rule, round, k - 1))])

\* SimulationEngine::simulate_knockout_round: teams.chunks(2).
simulate_knockout_round(teams, round, rule) ==
    table([k \in 1..(Len(teams) \div 2) |->
        played(teams[2 * k - 1], teams[2 * k], how_ends(rule, round, k - 1))])

\* SimulationEngine::simulate_knockout_stage
simulate_knockout_stage(pairings, rule) ==
    LET round_of_32 == table([k \in DOMAIN pairings |->
                           played(pairings[k][1], pairings[k][2],
                                  how_ends(rule, "round_of_32", k - 1))])
        round_of_16 == simulate_knockout_round(filter_map_winner(round_of_32),
                                               "round_of_16", rule)
        quarter_finals == simulate_knockout_round(filter_map_winner(round_of_16),
                                                  "quarter_finals", rule)
        semi_finals == simulate_knockout_round(filter_map_winner(quarter_finals),
                                               "semi_finals", rule)
        sf_winners == filter_map_winner(semi_finals)
        sf_losers == filter_map_loser(semi_finals)
    IN [round_of_32 |-> round_of_32,
        round_of_16 |-> round_of_16,
        quarter_finals |-> quarter_finals,
        semi_finals |-> semi_finals,
        third_place |-> played(sf_losers[1], sf_losers[2],
                               how_ends(rule, "third_place", 0)),
        final_match |-> played(sf_winners[1], sf_winners[2],
                               how_ends(rule, "final", 0))]

\* SimulationEngine::build_r32_pairings on finished groups.
engine_build_r32_pairings(results) ==
    LET qualifying_thirds == engine_qualifying_thirds(results)
    IN pairings_for(engine_winners(results), engine_runners_up(results), qualifying_thirds,
                    get_third_place_assignments(qualifying_key(qualifying_thirds)).value)

\* A stream: the placing order of every group, the groups whose third-placed
\* team took a point off the winner, and the knockout rule.
Stream(order, drawn, rule) == [order |-> order, drawn |-> drawn, rule |-> rule]

\* SimulationEngine::simulate
simulate(groups, stream) ==
    LET results == table([i \in DOMAIN groups |->
                       GroupOutcome(groups[i], stream.order, i \in stream.drawn)])
        knockout_bracket == simulate_knockout_stage(engine_build_r32_pairings(results),
                                                    stream.rule)
    IN [group_results |-> results,
        knockout_bracket |-> knockout_bracket,
        champion |-> winner(knockout_bracket.final_match).value,
        runner_up |-> loser(knockout_bracket.final_match).value,
        third_place |-> winner(knockout_bracket.third_place).value,
        fourth_place |-> loser(knockout_bracket.third_place).value]

\* Qualifying sets of third-placed groups: D,E,F,G,I,J,K,L (its table row
\* pairs 1G with 3G) and E,F,G,H,I,J,K,L (its table row respects the pools).
DrawnDEFGIJKL == {4, 5, 6, 7, 9, 10, 11, 12}
DrawnEFGHIJKL == {5, 6, 7, 8, 9, 10, 11, 12}

Streams ==
    {Stream(order, drawn, rule) :
        order \in PlacingOrders, drawn \in {DrawnDEFGIJKL, DrawnEFGHIJKL},
        rule \in KnockoutRules}

(***************************************************************************)
(* SimulationEngine::simulate as a state machine: the group stage with its *)
(* matches, the pairings, the knockout rounds one after the other and the  *)
(* extraction of the final standings.                                      *)
(***************************************************************************)
\* What the six matches of a group can be, in fixture order.  In a group
\* that follows its seeding every match is won 1-0 by the team listed
\* first; the other patterns change what the team listed third takes home.
SeededScores == << <<1, 0>>, <<1, 0>>, <<1, 0>>, <<1, 0>>, <<1, 0>>, <<1, 0>> >>
ThirdScoresMore == << <<1, 0>>, <<2, 1>>, <<1, 0>>, <<1, 0>>, <<1, 0>>, <<1, 0>> >>
ThirdConcedesMore == << <<1, 0>>, <<1, 0>>, <<2, 0>>, <<1, 0>>, <<1, 0>>, <<1, 0>> >>
ThirdDrawsFirst == << <<1, 0>>, <<1, 0>>, <<0, 0>>, <<1, 0>>, <<1, 0>>, <<1, 0>> >>
UpsetScores == << <<0, 1>>, <<0, 1>>, <<0, 1>>, <<0, 1>>, <<0, 1>>, <<1, 1>> >>

ScorePatterns ==
    {SeededScores, ThirdScoresMore, ThirdConcedesMore, ThirdDrawsFirst, UpsetScores}

\* The groups that play the first of two patterns.
PatternSplits == {DrawnDEFGIJKL, DrawnEFGHIJKL, {1, 3, 5, 7, 8, 9, 10, 12}}

\* How a knockout round can go, and how a single match can end.
RoundRules == {"home", "away", "mixed"}
MatchEndings == {"home", "away", "home_pens", "away_pens"}

NoBracket ==
    [round_of_32 |-> <<>>, round_of_16 |-> <<>>, quarter_finals |-> <<>>,
     semi_finals |-> <<>>, third_place |-> None, final_match |-> None]

EngineIdle ==
    /\ eng_group_results = <<>>
    /\ eng_pairings = <<>>
    /\ eng_bracket = NoBracket
    /\ eng_result = None
    /\ epc = "idle"

EngineStart ==
    /\ eng_group_results = <<>>
    /\ eng_pairings = <<>>
    /\ eng_bracket = NoBracket
    /\ eng_result = None
    /\ epc = "start"

\* simulate_group_stage: every group of the tournament is simulated.
SimulateGroupStage ==
    /\ epc = "start"
    /\ \E first \in ScorePatterns, second \in ScorePatterns, split \in PatternSplits,
          build \in SortBuilds :
          eng_group_results' = table([i \in DOMAIN BlockTournament |->
              simulate_group(BlockTournament[i],
                             IF i \in split THEN first ELSE second, build)])
    /\ epc' = "groups"
    /\ UNCHANGED <<eng_pairings, eng_bracket, eng_result>>
    /\ UNCHANGED <<bracketVars, matchVars, aggVars, runnerVars, groupVars, validateVars,
                   lateVars>>

\* SimulationEngine::build_r32_pairings
EngineBuildR32Pairings ==
    /\ epc = "groups"
    /\ eng_pairings' = engine_build_r32_pairings(eng_group_results)
    /\ epc' = "paired"
    /\ UNCHANGED <<eng_group_results, eng_bracket, eng_result>>
    /\ UNCHANGED <<bracketVars, matchVars, aggVars, runnerVars, groupVars, validateVars,
                   lateVars>>

\* simulate_knockout_stage: the Round of 32 on the explicit pairings.
SimulateRoundOf32 ==
    /\ epc = "paired"
    /\ \E rule \in RoundRules :
          eng_bracket' = [eng_bracket EXCEPT !.round_of_32 =
              table([k \in DOMAIN eng_pairings |->
                  played(eng_pairings[k][1], eng_pairings[k][2],
                         how_ends(rule, "round_of_32", k - 1))])]
    /\ epc' = "round_of_32"
    /\ UNCHANGED <<eng_group_results, eng_pairings, eng_result>>
    /\ UNCHANGED <<bracketVars, matchVars, aggVars, runnerVars, groupVars, validateVars,
                   lateVars>>

\* simulate_knockout_stage: the Round of 16 on the winners of the Round of 32.
SimulateRoundOf16 ==
    /\ epc = "round_of_32"
    /\ \E rule \in RoundRules :
          eng_bracket' = [eng_bracket EXCEPT !.round_of_16 =
              simulate_knockout_round(filter_map_winner(eng_bracket.round_of_32),
                                      "round_of_16", rule)]
    /\ epc' = "round_of_16"
    /\ UNCHANGED <<eng_group_results, eng_pairings, eng_result>>
    /\ UNCHANGED <<bracketVars, matchVars, aggVars, runnerVars, groupVars, validateVars,
                   lateVars>>

\* simulate_knockout_stage: the quarter-finals.
SimulateQuarterFinals ==
    /\ epc = "round_of_16"
    /\ \E rule \in RoundRules :
          eng_bracket' = [eng_bracket EXCEPT !.quarter_finals =
              simulate_knockout_round(filter_map_winner(eng_bracket.round_of_16),
                                      "quarter_finals", rule)]
    /\ epc' = "quarter_finals"
    /\ UNCHANGED <<eng_group_results, eng_pairings, eng_result>>
    /\ UNCHANGED <<bracketVars, matchVars, aggVars, runnerVars, groupVars, validateVars,
                   lateVars>>

\* simulate_knockout_stage: the semi-finals.
SimulateSemiFinals ==
    /\ epc = "quarter_finals"
    /\ \E rule \in RoundRules :
          eng_bracket' = [eng_bracket EXCEPT !.semi_finals =
              simulate_knockout_round(filter_map_winner(eng_bracket.quarter_finals),
                                      "semi_finals", rule)]
    /\ epc' = "semi_finals"
    /\ UNCHANGED <<eng_group_results, eng_pairings, eng_result>>
    /\ UNCHANGED <<bracketVars, matchVars, aggVars, runnerVars, groupVars, validateVars,
                   lateVars>>

\* The third-place match of the first two semi-final winners instead of
\* the losers.
third_place_teams_from_winners(semi_finals) == filter_map_winner(semi_finals)

\* The teams of the third-place match: the semi-final losers.
third_place_teams(semi_finals) == filter_map_loser(semi_finals)

\* simulate_knockout_stage: the third-place match, then the final.  Fewer
\* than two semi-final winners or losers make the indexing panic.
SimulateThirdPlaceAndFinal ==
    /\ epc = "semi_finals"
    /\ LET sf_winners == filter_map_winner(eng_bracket.semi_finals)
           sf_losers == third_place_teams(eng_bracket.semi_finals)
       IN IF Len(sf_winners) < 2 \/ Len(sf_losers) < 2
          THEN /\ epc' = "panicked"
               /\ UNCHANGED eng_bracket
          ELSE /\ \E third_ends \in MatchEndings, final_ends \in MatchEndings :
                     eng_bracket' = [eng_bracket EXCEPT
                         !.third_place = Some(played(sf_losers[1], sf_losers[2], third_ends)),
                         !.final_match = Some(played(sf_winners[1], sf_winners[2], final_ends))]
               /\ epc' = "finals"
    /\ UNCHANGED <<eng_group_results, eng_pairings, eng_result>>
    /\ UNCHANGED <<bracketVars, matchVars, aggVars, runnerVars, groupVars, validateVars,
                   lateVars>>

\* simulate: the final standings are unwrapped from the last two matches.
ExtractFinalStandings ==
    /\ epc = "finals"
    /\ LET final_match == eng_bracket.final_match.value
           third_place == eng_bracket.third_place.value
       IN IF ~winner(final_match).is_some \/ ~winner(third_place).is_some
          THEN /\ epc' = "panicked"
               /\ UNCHANGED eng_result
          ELSE /\ eng_result' = Some(
                     [group_results |-> eng_group_results,
                      knockout_bracket |->
                          [eng_bracket EXCEPT !.third_place = third_place,
                                              !.final_match = final_match],
                      champion |-> winner(final_match).value,
                      runner_up |-> loser(final_match).value,
                      third_place |-> winner(third_place).value,
                      fourth_place |-> loser(third_place).value])
               /\ epc' = "done"
    /\ UNCHANGED <<eng_group_results, eng_pairings, eng_bracket>>
    /\ UNCHANGED <<bracketVars, matchVars, aggVars, runnerVars, groupVars, validateVars,
                   lateVars>>

(***************************************************************************)
(* AggregatedResults::from_results (wc-simulation/aggregator.rs) and the   *)
(* histograms of wc-simulation/path_tracker.rs.  A HashMap<K, u32> is the  *)
(* set of its entries <<key, count>>; the maps keyed by every team of the  *)
(* tournament are functions on TeamIds.                                    *)
(***************************************************************************)
MAX_UNIQUE_BRACKETS == 1000
MAX_PATH_ENTRIES == 100

b2n(cond) == IF cond THEN 1 ELSE 0

\* HashMap::get(..).copied().unwrap_or(0)
map_count(m, k) ==
    IF \E e \in m : e[1] = k THEN (CHOOSE e \in m : e[1] = k)[2] ELSE 0

\* `*m.entry(k).or_insert(0) += 1`, n times
map_add(m, k, n) ==
    IF n = 0 THEN m
    ELSE {e \in m : e[1] # k} \cup {<<k, map_count(m, k) + n>>}

map_keys(m) == {e[1] : e \in m}

\* Lexicographic order on sequences of numbers of equal length, the order of
\* the keys' printed forms used to lay a map out for iteration.
RECURSIVE lex_less(_, _)
lex_less(a, b) ==
    IF a = <<>> \/ b = <<>> THEN a = <<>> /\ b # <<>>
    ELSE IF Head(a) # Head(b) THEN Head(a) < Head(b)
    ELSE lex_less(Tail(a), Tail(b))

\* Iteration order of a HashMap under a RandomState: which of two keys comes
\* later.  Two hasher states are modelled, laying keys out in ascending and
\* in descending order.
Hashers == {"up", "down"}

iterates_later(hasher, a, b) ==
    IF hasher = "up" THEN lex_less(b, a) ELSE lex_less(a, b)

\* Iterator::max_by_key over a map's entries: the last entry, in iteration
\* order, among those with the greatest count.  entries: set of <<key, count>>.
max_by_key(entries, hasher) ==
    LET top == {e \in entries : \A f \in entries : f[2] <= e[2]}
    IN CHOOSE e \in top : \A f \in top : f = e \/ iterates_later(hasher, e[1], f[1])

\* ---- per-team counters (TeamStatistics)
NoTeamStatistics ==
    [group_wins |-> 0, group_second |-> 0, group_third_qualified |-> 0,
     group_eliminated |-> 0, reached_round_of_32 |-> 0, reached_round_of_16 |-> 0,
     reached_quarter_finals |-> 0, reached_semi_finals |-> 0, reached_final |-> 0,
     champion |-> 0, runner_up |-> 0, third_place |-> 0, fourth_place |-> 0]

top_4(r) == {r.champion, r.runner_up, r.third_place, r.fourth_place}

\* The ranked third-placed standings of a result.
ranked_third(r) ==
    rank_third_placed_teams([i \in DOMAIN r.group_results |-> r.group_results[i].standings[3]])

\* knockout_qualifiers: winner and runner-up of every group, then the best
\* eight third-placed teams.
RECURSIVE winners_and_runners_up(_)
winners_and_runners_up(grs) ==
    IF grs = <<>> THEN <<>>
    ELSE <<Head(grs).standings[1].team_id, Head(grs).standings[2].team_id>>
            \o winners_and_runners_up(Tail(grs))

knockout_qualifiers(r) ==
    LET ranked == ranked_third(r)
        n == IF Len(ranked) < QUALIFYING_THIRDS THEN Len(ranked) ELSE QUALIFYING_THIRDS
    IN winners_and_runners_up(r.group_results) \o [i \in 1..n |-> ranked[i].team_id]

\* `m.winner() == Some(t)`
won_by(m, t) == winner(m).is_some /\ winner(m).value = t

\* Number of matches of a round won by team t when t is not among the top 4.
wins_outside_top_4(matches, r, t) ==
    IF t \in top_4(r) THEN 0
    ELSE Cardinality({k \in DOMAIN matches : won_by(matches[k], t)})

\* Counters that credit the title to both finalists.
record_team_title_to_finalists(s, r, t) ==
    [s EXCEPT !.champion = @ + b2n(t \in {r.champion, r.runner_up}),
              !.runner_up = @ + b2n(t = r.runner_up),
              !.third_place = @ + b2n(t = r.third_place),
              !.fourth_place = @ + b2n(t = r.fourth_place)]

\* The counters of team t after one more result (aggregator.rs 133-269).
record_team(s, r, t) ==
    LET is_champion == b2n(t = r.champion)
        is_runner_up == b2n(t = r.runner_up)
        is_third == b2n(t = r.third_place)
        is_fourth == b2n(t = r.fourth_place)
        podium == is_champion + is_runner_up + is_third + is_fourth
        ranked == ranked_third(r)
        grs == r.group_results
        kb == r.knockout_bracket
        qualifiers == knockout_qualifiers(r)
    IN [group_wins |-> s.group_wins
            + Cardinality({i \in DOMAIN grs : grs[i].standings[1].team_id = t}),
        group_second |-> s.group_second
            + Cardinality({i \in DOMAIN grs : grs[i].standings[2].team_id = t}),
        group_third_qualified |-> s.group_third_qualified
            + Cardinality({i \in DOMAIN ranked : i <= QUALIFYING_THIRDS /\ ranked[i].team_id = t}),
        group_eliminated |-> s.group_eliminated
            + Cardinality({i \in DOMAIN grs : grs[i].standings[4].team_id = t})
            + Cardinality({i \in DOMAIN ranked : i > QUALIFYING_THIRDS /\ ranked[i].team_id = t}),
        reached_round_of_32 |-> s.reached_round_of_32 + podium
            + (IF t \in top_4(r) THEN 0
               ELSE Cardinality({i \in DOMAIN qualifiers : qualifiers[i] = t})),
        reached_round_of_16 |-> s.reached_round_of_16 + podium
            + wins_outside_top_4(kb.round_of_32, r, t),
        reached_quarter_finals |-> s.reached_quarter_finals + podium
            + wins_outside_top_4(kb.round_of_16, r, t),
        reached_semi_finals |-> s.reached_semi_finals + podium
            + wins_outside_top_4(kb.quarter_finals, r, t),
        reached_final |-> s.reached_final + is_champion + is_runner_up,
        champion |-> s.champion + is_champion,
        runner_up |-> s.runner_up + is_runner_up,
        third_place |-> s.third_place + is_third,
        fourth_place |-> s.fourth_place + is_fourth]

\* The key of finals_count: the two finalists, lower id first.
final_key(r) ==
    IF r.champion < r.runner_up THEN <<r.champion, r.runner_up>>
    ELSE <<r.runner_up, r.champion>>

\* create_bracket_signature: the winners of all 31 bracket matches in order,
\* printed and joined with "-"; the sequence of ids stands for the string.
create_bracket_signature(kb) ==
    filter_map_winner(kb.round_of_32) \o filter_map_winner(kb.round_of_16)
        \o filter_map_winner(kb.quarter_finals) \o filter_map_winner(kb.semi_finals)
        \o filter_map_winner(<<kb.final_match>>)

\* A map that takes every new signature, however many it holds.
record_bracket_uncapped(outcomes, kb) ==
    LET sig == create_bracket_signature(kb)
        known == {e \in outcomes : e[1] = sig}
    IN IF known = {}
       THEN outcomes \cup {<<sig, <<1, kb>>>>}
       ELSE {IF e[1] = sig THEN <<sig, <<e[2][1] + 1, e[2][2]>>>> ELSE e : e \in outcomes}

\* bracket_outcomes: entries <<signature, <<count, first bracket>>>>.
record_bracket(outcomes, kb) ==
    LET sig == create_bracket_signature(kb)
        known == {e \in outcomes : e[1] = sig}
    IN IF Cardinality(outcomes) < MAX_UNIQUE_BRACKETS \/ known # {}
       THEN IF known = {}
            THEN outcomes \cup {<<sig, <<1, kb>>>>}
            ELSE {IF e[1] = sig THEN <<sig, <<e[2][1] + 1, e[2][2]>>>> ELSE e : e \in outcomes}
       ELSE outcomes

\* ---- slot histograms (BracketSlotStats, BracketSlotWinStats, SlotOpponentStats)
NoSlotStats ==
    [round_of_32 |-> {}, round_of_16 |-> {}, quarter_finals |-> {},
     semi_finals |-> {}, final_match |-> 0]

NoSlotOpponentStats ==
    [round_of_32 |-> {}, round_of_16 |-> {}, quarter_finals |-> {},
     semi_finals |-> {}, final_match |-> {}]

\* A participation count that overlooks the away side of a match.
appearances_home_only(m, t) == b2n(m.home_team = t)

\* How often team t plays in a match: as home team, as away team.
appearances(m, t) == b2n(m.home_team = t) + b2n(m.away_team = t)

\* record_slot for every match of a round that team t plays in; the slot of
\* matches[k] is k - 1.
RECURSIVE record_slots(_, _, _, _)
record_slots(map, matches, k, t) ==
    IF k > Len(matches) THEN map
    ELSE record_slots(map_add(map, k - 1, appearances(matches[k], t)), matches, k + 1, t)

\* record_win for every match of a round that team t wins.
RECURSIVE record_wins(_, _, _, _)
record_wins(map, matches, k, t) ==
    IF k > Len(matches) THEN map
    ELSE record_wins(map_add(map, k - 1, b2n(won_by(matches[k], t))), matches, k + 1, t)

\* record_opponent for every match of a round that team t plays in; the
\* nested map slot -> opponent -> count is keyed by <<slot, opponent>>.
RECURSIVE record_opponents(_, _, _, _)
record_opponents(map, matches, k, t) ==
    IF k > Len(matches) THEN map
    ELSE LET m == matches[k]
             as_home == map_add(map, <<k - 1, m.away_team>>, b2n(m.home_team = t))
         IN record_opponents(map_add(as_home, <<k - 1, m.home_team>>, b2n(m.away_team = t)),
                             matches, k + 1, t)

\* aggregator.rs 271-360 for team t
record_bracket_slots(s, kb, t) ==
    [round_of_32 |-> record_slots(s.round_of_32, kb.round_of_32, 1, t),
     round_of_16 |-> record_slots(s.round_of_16, kb.round_of_16, 1, t),
     quarter_finals |-> record_slots(s.quarter_finals, kb.quarter_finals, 1, t),
     semi_finals |-> record_slots(s.semi_finals, kb.semi_finals, 1, t),
     final_match |-> s.final_match + appearances(kb.final_match, t)]

\* aggregator.rs 362-404 for team t
record_bracket_wins(s, kb, t) ==
    [round_of_32 |-> record_wins(s.round_of_32, kb.round_of_32, 1, t),
     round_of_16 |-> record_wins(s.round_of_16, kb.round_of_16, 1, t),
     quarter_finals |-> record_wins(s.quarter_finals, kb.quarter_finals, 1, t),
     semi_finals |-> record_wins(s.semi_finals, kb.semi_finals, 1, t),
     final_match |-> s.final_match + b2n(won_by(kb.final_match, t))]

record_slot_opponents(s, kb, t) ==
    [round_of_32 |-> record_opponents(s.round_of_32, kb.round_of_32, 1, t),
     round_of_16 |-> record_opponents(s.round_of_16, kb.round_of_16, 1, t),
     quarter_finals |-> record_opponents(s.quarter_finals, kb.quarter_finals, 1, t),
     semi_finals |-> record_opponents(s.semi_finals, kb.semi_finals, 1, t),
     final_match |->
        map_add(map_add(s.final_match, kb.final_match.away_team,
                        b2n(kb.final_match.home_team = t)),
                kb.final_match.home_team, b2n(kb.final_match.away_team = t))]

\* ---- path histograms (PathStatistics)
NoPathStatistics ==
    [round_of_32_matchups |-> {}, round_of_16_matchups |-> {},
     quarter_final_matchups |-> {}, semi_final_matchups |-> {},
     final_matchups |-> {}, complete_paths |-> {}]

\* find_opponent: the opponent in the first match of the round the team plays in.
find_opponent(matches, team_id) ==
    LET hits == {k \in DOMAIN matches :
                    team_id \in {matches[k].home_team, matches[k].away_team}}
    IN IF hits = {} THEN None
       ELSE LET m == matches[CHOOSE k \in hits : \A j \in hits : k <= j]
            IN Some(IF m.home_team = team_id THEN m.away_team ELSE m.home_team)

\* One part of a path key, or nothing: "R32:5" is <<1, 5>>, "F:0" is <<5, 0>>.
path_part(round, opponent) ==
    IF opponent.is_some THEN <<round, opponent.value>> ELSE <<>>

\* RoundMatchups::record_opponent for an optional opponent.
record_matchup(map, opponent) ==
    IF opponent.is_some THEN map_add(map, opponent.value, 1) ELSE map

\* PathStatistics::record_path followed by record_complete_path.
record_path(s, r32, r16, qf, sf, final) ==
    LET path_key == path_part(1, r32) \o path_part(2, r16) \o path_part(3, qf)
                       \o path_part(4, sf) \o path_part(5, final)
    IN [round_of_32_matchups |-> record_matchup(s.round_of_32_matchups, r32),
        round_of_16_matchups |-> record_matchup(s.round_of_16_matchups, r16),
        quarter_final_matchups |-> record_matchup(s.quarter_final_matchups, qf),
        semi_final_matchups |-> record_matchup(s.semi_final_matchups, sf),
        final_matchups |-> record_matchup(s.final_matchups, final),
        complete_paths |-> IF path_key = <<>> THEN s.complete_paths
                           ELSE map_add(s.complete_paths, path_key, 1)]

\* aggregator.rs 406-426 for team t: once per occurrence among the qualifiers.
RECURSIVE record_paths(_, _, _, _)
record_paths(s, kb, n, t) ==
    IF n = 0 THEN s
    ELSE record_paths(record_path(s, find_opponent(kb.round_of_32, t),
                                  find_opponent(kb.round_of_16, t),
                                  find_opponent(kb.quarter_finals, t),
                                  find_opponent(kb.semi_finals, t),
                                  find_opponent(<<kb.final_match>>, t)),
                      kb, n - 1, t)

\* PathStatistics::prune_paths: keep the max_entries most frequent paths; on
\* equal counts the drained iteration order decides which stay.
RECURSIVE take_top(_, _, _)
take_top(entries, n, hasher) ==
    IF n = 0 \/ entries = {} THEN {}
    ELSE LET top == {e \in entries : \A f \in entries : f[2] <= e[2]}
             first == CHOOSE e \in top :
                         \A f \in top : f = e \/ iterates_later(hasher, f[1], e[1])
         IN {first} \cup take_top(entries \ {first}, n - 1, hasher)

prune_paths(s, max_entries, hasher) ==
    IF Cardinality(s.complete_paths) <= max_entries THEN s
    ELSE [s EXCEPT !.complete_paths = take_top(s.complete_paths, max_entries, hasher)]

\* ---- the greedy most-likely bracket (compute_greedy_bracket)
\* get_count / get_participation_count: the win count of the team at the
\* slot if positive, else its participation count.
get_count(win_stats, slot_stats, team_id, round, slot) ==
    LET win_count == IF round = "final" THEN win_stats[team_id].final_match
                     ELSE map_count(win_stats[team_id][round], slot)
    IN IF win_count > 0 THEN win_count
       ELSE IF round = "final" THEN slot_stats[team_id].final_match
       ELSE map_count(slot_stats[team_id][round], slot)

\* team_stats.iter().collect() sorted by champion count, descending; the
\* sort is stable, so teams with equal counts stay in iteration order.
teams_by_win_prob(team_stats, hasher) ==
    LET before(a, b) ==
            IF team_stats[a].champion # team_stats[b].champion
            THEN team_stats[a].champion > team_stats[b].champion
            ELSE iterates_later(hasher, <<b>>, <<a>>)
    IN SortSeq([i \in 1..NUM_TEAMS |-> i - 1], before)

\* Phase 1: every team in turn takes its best free Round-of-32 slot.
RECURSIVE greedy_r32(_, _, _, _, _, _)
greedy_r32(order, i, r32, team_stats, win_stats, slot_stats) ==
    IF i > Len(order) THEN r32
    ELSE LET team_id == order[i]
             free == (0..15) \ map_keys(r32)
             count(slot) == get_count(win_stats, slot_stats, team_id, "round_of_32", slot)
             best == {s \in free : count(s) > 0 /\ \A o \in free : count(o) <= count(s)}
         IN IF team_id \in {e[2] : e \in r32}
                \/ team_stats[team_id].reached_round_of_32 = 0
                \/ best = {}
            THEN greedy_r32(order, i + 1, r32, team_stats, win_stats, slot_stats)
            ELSE greedy_r32(order, i + 1,
                            r32 \cup {<<CHOOSE s \in best : \A o \in best : s <= o, team_id>>},
                            team_stats, win_stats, slot_stats)

\* Phases 2-5: a slot takes the feeder team with the greater positive count,
\* the first feeder on equal counts.  prev: set of <<slot, team>>.
greedy_next(prev, n_slots, round, win_stats, slot_stats) ==
    LET team_at(feeder) == (CHOOSE e \in prev : e[1] = feeder)[2]
        count(feeder, slot) ==
            IF feeder \in map_keys(prev)
            THEN get_count(win_stats, slot_stats, team_at(feeder), round, slot)
            ELSE 0
        chosen(slot) ==
            IF count(2 * slot + 1, slot) > count(2 * slot, slot) THEN 2 * slot + 1
            ELSE 2 * slot
    IN {<<slot, team_at(chosen(slot))>> :
            slot \in {s \in 0..(n_slots - 1) : count(chosen(s), s) > 0}}

\* A MostLikelyBracketSlot; its probability is count / total_simulations.
MostLikelyBracketSlot(team_id, count) == [team_id |-> team_id, count |-> count]

slot_data(assigned, round, win_stats, slot_stats) ==
    {<<e[1], MostLikelyBracketSlot(e[2], get_count(win_stats, slot_stats, e[2], round, e[1]))>> :
        e \in assigned}

compute_greedy_bracket(team_stats, win_stats, slot_stats, hasher) ==
    LET r32 == greedy_r32(teams_by_win_prob(team_stats, hasher), 1, {},
                          team_stats, win_stats, slot_stats)
        r16 == greedy_next(r32, 8, "round_of_16", win_stats, slot_stats)
        qf == greedy_next(r16, 4, "quarter_finals", win_stats, slot_stats)
        sf == greedy_next(qf, 2, "semi_finals", win_stats, slot_stats)
        final == greedy_next(sf, 1, "final", win_stats, slot_stats)
        final_match == IF final = {} THEN None
                       ELSE Some((CHOOSE e \in slot_data(final, "final", win_stats, slot_stats) :
                                     TRUE)[2])
    IN [round_of_32 |-> slot_data(r32, "round_of_32", win_stats, slot_stats),
        round_of_16 |-> slot_data(r16, "round_of_16", win_stats, slot_stats),
        quarter_finals |-> slot_data(qf, "quarter_finals", win_stats, slot_stats),
        semi_finals |-> slot_data(sf, "semi_finals", win_stats, slot_stats),
        final_match |-> final_match,
        champion |-> final_match]

\* ---- the optimal bracket (wc-simulation/optimal_bracket.rs)
NUM_POSITIONS == 32

\* build_team_to_group_map: the letter of the last group that lists the team.
team_to_group(groups, team_id) ==
    LET hits == {i \in DOMAIN groups : team_id \in Range(groups[i].teams)}
    IN IF hits = {} THEN None
       ELSE Some(groups[CHOOSE i \in hits : \A j \in hits : j <= i].id)

\* team_can_be_at_source
team_can_be_at_source(team_group, source) ==
    IF source.kind = "GroupTeam" THEN team_group = source.group
    ELSE team_group \in Range(THIRD_PLACE_POOLS[source.slot_index + 1])

\* build_eligibility_map: the valid positions <<slot, side>> of a team.
valid_positions(groups, team_id) ==
    LET g == team_to_group(groups, team_id)
    IN IF ~g.is_some THEN {}
       ELSE {<<slot, 0>> : slot \in {s \in 0..15 :
                 team_can_be_at_source(g.value, R32_BRACKET[s + 1].team_a)}}
            \cup {<<slot, 1>> : slot \in {s \in 0..15 :
                 team_can_be_at_source(g.value, R32_BRACKET[s + 1].team_b)}}

position_to_index(slot, side) == slot * 2 + side

index_to_position(idx) == <<idx \div 2, idx % 2>>

get_participation_count(team_id, slot, slot_stats, win_stats) ==
    get_count(win_stats, slot_stats, team_id, "round_of_32", slot)

\* The weights matrix (rows: eligible teams, columns: positions, padded to a
\* square).  teams: sequence of team ids; rows and columns are 0-based.
weights_matrix(teams, groups, slot_stats, win_stats) ==
    LET eligible_teams == SelectSeq(teams, LAMBDA t : valid_positions(groups, t) # {})
        num_teams == Len(eligible_teams)
        matrix_size == IF num_teams > NUM_POSITIONS THEN num_teams ELSE NUM_POSITIONS
    IN table([team_idx \in 0..(matrix_size - 1) |->
          table([pos_idx \in 0..(matrix_size - 1) |->
              IF /\ team_idx < num_teams
                 /\ pos_idx < NUM_POSITIONS
                 /\ index_to_position(pos_idx)
                        \in valid_positions(groups, eligible_teams[team_idx + 1])
              THEN get_participation_count(eligible_teams[team_idx + 1], pos_idx \div 2,
                                           slot_stats, win_stats)
              ELSE 0])])

\* kuhn_munkres (crate pathfinding) is specified by its contract: it returns
\* a perfect matching row -> column of maximum total weight, and which one
\* when several exist is left open.  column_max bounds the weight any
\* matching collects in a column, so a perfect matching that collects the
\* maximum in every column is a maximum-weight matching.
column_max(weights, pos_idx) ==
    LET col == {weights[i][pos_idx] : i \in DOMAIN weights}
    IN CHOOSE w \in col : \A v \in col : v <= w

KmTies == {"first", "last"}

\* Columns are filled in order, each with an unused row of maximal weight
\* in the column; tie says which of several such rows is taken.
RECURSIVE km_fill(_, _, _, _)
km_fill(weights, pos_idx, row_of, tie) ==
    IF pos_idx \notin DOMAIN weights THEN row_of
    ELSE LET unused == DOMAIN weights \ Range(row_of)
             best == {i \in unused : \A k \in unused : weights[k][pos_idx] <= weights[i][pos_idx]}
             row == IF tie = "first" THEN CHOOSE i \in best : \A k \in best : i <= k
                    ELSE CHOOSE i \in best : \A k \in best : k <= i
         IN km_fill(weights, pos_idx + 1, Append(row_of, row), tie)

\* The assignment row -> column of a matching given column -> row.
kuhn_munkres(weights, tie) ==
    LET row_of == km_fill(weights, 0, <<>>, tie)
    IN table([team_idx \in DOMAIN weights |->
           (CHOOSE j \in DOMAIN row_of : row_of[j] = team_idx) - 1])

\* The contract of kuhn_munkres: a permutation collecting every column's maximum.
is_maximum_matching(weights, assignment) ==
    /\ DOMAIN assignment = DOMAIN weights
    /\ {assignment[i] : i \in DOMAIN assignment} = DOMAIN weights
    /\ \A i \in DOMAIN assignment :
          weights[i][assignment[i]] = column_max(weights, assignment[i])

\* position_assignments: the team kept at a position, if its row was
\* assigned the column and the position is valid for it.
position_assignment(teams, groups, assignment, pos_idx) ==
    LET eligible_teams == SelectSeq(teams, LAMBDA t : valid_positions(groups, t) # {})
        rows == {i \in DOMAIN assignment :
                    /\ assignment[i] = pos_idx
                    /\ i < Len(eligible_teams)
                    /\ pos_idx < NUM_POSITIONS
                    /\ index_to_position(pos_idx)
                           \in valid_positions(groups, eligible_teams[i + 1])}
    IN IF rows = {} THEN None
       ELSE Some(eligible_teams[(CHOOSE i \in rows : \A k \in rows : k <= i) + 1])

\* The loop over the 16 slots: a match is pushed when both sides are assigned.
RECURSIVE build_r32_matches(_, _, _, _, _, _)
build_r32_matches(slot, teams, groups, assignment, slot_stats, win_stats) ==
    IF slot > 15 THEN <<>>
    ELSE LET a == position_assignment(teams, groups, assignment, position_to_index(slot, 0))
             b == position_assignment(teams, groups, assignment, position_to_index(slot, 1))
             rest == build_r32_matches(slot + 1, teams, groups, assignment, slot_stats, win_stats)
         IN IF a.is_some /\ b.is_some
            THEN LET a_wins == map_count(win_stats[a.value].round_of_32, slot)
                     b_wins == map_count(win_stats[b.value].round_of_32, slot)
                 IN << [slot |-> slot,
                        team_a |-> MostLikelyBracketSlot(a.value,
                            get_participation_count(a.value, slot, slot_stats, win_stats)),
                        team_b |-> MostLikelyBracketSlot(b.value,
                            get_participation_count(b.value, slot, slot_stats, win_stats)),
                        winner |-> IF a_wins >= b_wins THEN a.value ELSE b.value] >> \o rest
            ELSE rest

\* The win count pick_winner_for_slot compares.
get_wins(win_stats, team_id, round, slot) ==
    IF round = "final" THEN win_stats[team_id].final_match
    ELSE map_count(win_stats[team_id][round], slot)

\* pick_winner_for_slot: max_by_key keeps the last of several greatest candidates.
RECURSIVE pick_winner_for_slot(_, _, _, _)
pick_winner_for_slot(candidates, slot, round, win_stats) ==
    IF candidates = <<>> THEN None
    ELSE LET rest == pick_winner_for_slot(Tail(candidates), slot, round, win_stats)
         IN IF rest.is_some /\ get_wins(win_stats, rest.value, round, slot)
                                  >= get_wins(win_stats, Head(candidates), round, slot)
            THEN rest
            ELSE Some(Head(candidates))

\* One later round: slot s takes its winner from feeders 2s and 2s+1 of the
\* previous round; prev: set of <<slot, MostLikelyBracketSlot>>.
propagate_round(prev, n_slots, round, win_stats) ==
    LET candidates(slot) ==
            (IF 2 * slot \in map_keys(prev)
             THEN <<(CHOOSE e \in prev : e[1] = 2 * slot)[2].team_id>> ELSE <<>>)
            \o (IF 2 * slot + 1 \in map_keys(prev)
                THEN <<(CHOOSE e \in prev : e[1] = 2 * slot + 1)[2].team_id>> ELSE <<>>)
        picked(slot) == pick_winner_for_slot(candidates(slot), slot, round, win_stats)
    IN {<<slot, MostLikelyBracketSlot(picked(slot).value,
                    get_wins(win_stats, picked(slot).value, round, slot))>> :
            slot \in {s \in 0..(n_slots - 1) : picked(s).is_some}}

\* The feeders of the Round of 16 are the Vec positions 2s and 2s+1 of
\* r32_matches, whatever slots the matches stored there have.
r32_feeders(r32_matches) ==
    {<<k - 1, MostLikelyBracketSlot(r32_matches[k].winner, 0)>> : k \in DOMAIN r32_matches}

\* propagate_winners, round by round: each round is built from the one before.
propagate_final(r32_matches, r16, qf, sf, final) ==
    [round_of_32 |-> r32_matches,
     round_of_16 |-> r16,
     quarter_finals |-> qf,
     semi_finals |-> sf,
     champion |-> IF final = {} THEN None ELSE Some((CHOOSE e \in final : TRUE)[2])]

propagate_sf(r32_matches, r16, qf, sf, win_stats) ==
    propagate_final(r32_matches, r16, qf, sf, propagate_round(sf, 1, "final", win_stats))

propagate_qf(r32_matches, r16, qf, win_stats) ==
    propagate_sf(r32_matches, r16, qf,
                 propagate_round(qf, 2, "semi_finals", win_stats), win_stats)

propagate_r16(r32_matches, r16, win_stats) ==
    propagate_qf(r32_matches, r16,
                 propagate_round(r16, 4, "quarter_finals", win_stats), win_stats)

propagate_winners(r32_matches, win_stats) ==
    propagate_r16(r32_matches,
                  propagate_round(r32_feeders(r32_matches), 8, "round_of_16", win_stats),
                  win_stats)

\* compute_optimal_bracket once kuhn_munkres has returned the assignment.
optimal_bracket_from(assignment, teams, groups, slot_stats, win_stats) ==
    propagate_winners(build_r32_matches(0, teams, groups, assignment, slot_stats, win_stats),
                      win_stats)

compute_optimal_bracket(teams, groups, slot_stats, win_stats, tie) ==
    optimal_bracket_from(kuhn_munkres(weights_matrix(teams, groups, slot_stats, win_stats), tie),
                         teams, groups, slot_stats, win_stats)

\* verify_optimal_bracket: the list of errors is empty.
verify_optimal_bracket(bracket) ==
    LET r32 == bracket.round_of_32
        all_teams == {r32[k].team_a.team_id : k \in DOMAIN r32}
                        \cup {r32[k].team_b.team_id : k \in DOMAIN r32}
        valid_feeders(slot) ==
            {r32[k].winner : k \in DOMAIN r32 \cap {2 * slot + 1, 2 * slot + 2}}
    IN /\ \A k \in DOMAIN r32 :
             /\ r32[k].team_a.team_id # r32[k].team_b.team_id
             /\ \A j \in DOMAIN r32 : j < k =>
                   {r32[k].team_a.team_id, r32[k].team_b.team_id}
                       \cap {r32[j].team_a.team_id, r32[j].team_b.team_id} = {}
       /\ Cardinality(all_teams) = NUM_POSITIONS
       /\ \A e \in bracket.round_of_16 : e[2].team_id \in valid_feeders(e[1])

\* ---- the fold and the derived fields
\* The accumulators of from_results before the first result.
NoAggregate ==
    [team_stats |-> [t \in TeamIds |-> NoTeamStatistics],
     finals_count |-> {},
     path_stats |-> [t \in TeamIds |-> NoPathStatistics],
     bracket_slot_stats |-> [t \in TeamIds |-> NoSlotStats],
     bracket_slot_win_stats |-> [t \in TeamIds |-> NoSlotStats],
     slot_opponent_stats |-> [t \in TeamIds |-> NoSlotOpponentStats],
     bracket_outcomes |-> {}]

\* The body of `for result in &results`.
aggregate_result(acc, r) ==
    LET kb == r.knockout_bracket
        qualifiers == knockout_qualifiers(r)
    IN [team_stats |-> table([t \in TeamIds |-> record_team(acc.team_stats[t], r, t)]),
        finals_count |-> map_add(acc.finals_count, final_key(r), 1),
        path_stats |-> table([t \in TeamIds |->
            record_paths(acc.path_stats[t], kb,
                         Cardinality({i \in DOMAIN qualifiers : qualifiers[i] = t}), t)]),
        bracket_slot_stats |-> table([t \in TeamIds |->
            record_bracket_slots(acc.bracket_slot_stats[t], kb, t)]),
        bracket_slot_win_stats |-> table([t \in TeamIds |->
            record_bracket_wins(acc.bracket_slot_win_stats[t], kb, t)]),
        slot_opponent_stats |-> table([t \in TeamIds |->
            record_slot_opponents(acc.slot_opponent_stats[t], kb, t)]),
        bracket_outcomes |-> record_bracket(acc.bracket_outcomes, kb)]

RECURSIVE fold_results(_, _)
fold_results(acc, results) ==
    IF results = <<>> THEN acc
    ELSE fold_results(aggregate_result(acc, Head(results)), Tail(results))

\* most_likely_winner: max_by_key over team_stats.values(), TeamId(0) if empty.
most_likely_winner(team_stats, hasher) ==
    max_by_key({<< <<t>>, team_stats[t].champion >> : t \in DOMAIN team_stats}, hasher)[1][1]

\* most_likely_final: max_by_key over finals_count, (0, 1) if empty.
most_likely_final(finals_count, hasher) ==
    IF finals_count = {} THEN <<0, 1>> ELSE max_by_key(finals_count, hasher)[1]

\* The most frequent outcome among those whose final the team lost.
most_frequent_bracket_of_final_loser(bracket_outcomes, likely_winner, hasher) ==
    LET matching == {e \in bracket_outcomes :
                        loser(e[2][2].final_match) = Some(likely_winner)}
    IN IF matching = {} THEN None
       ELSE LET e == max_by_key({<<f[1], f[2][1]>> : f \in matching}, hasher)
                kb == (CHOOSE f \in matching : f[1] = e[1])[2][2]
            IN Some([count |-> e[2],
                     round_of_32_winners |-> filter_map_winner(kb.round_of_32),
                     round_of_16_winners |-> filter_map_winner(kb.round_of_16),
                     quarter_final_winners |-> filter_map_winner(kb.quarter_finals),
                     semi_final_winners |-> filter_map_winner(kb.semi_finals),
                     champion |-> likely_winner])

\* most_frequent_bracket: the most frequent outcome won by the most likely winner.
most_frequent_bracket(bracket_outcomes, likely_winner, hasher) ==
    LET matching == {e \in bracket_outcomes : won_by(e[2][2].final_match, likely_winner)}
    IN IF matching = {} THEN None
       ELSE LET e == max_by_key({<<f[1], f[2][1]>> : f \in matching}, hasher)
                kb == (CHOOSE f \in matching : f[1] = e[1])[2][2]
            IN Some([count |-> e[2],
                     round_of_32_winners |-> filter_map_winner(kb.round_of_32),
                     round_of_16_winners |-> filter_map_winner(kb.round_of_16),
                     quarter_final_winners |-> filter_map_winner(kb.quarter_finals),
                     semi_final_winners |-> filter_map_winner(kb.semi_finals),
                     champion |-> likely_winner])

\* AggregatedResults::from_results.  teams: tournament.teams as ids; hasher:
\* the RandomState of the maps; tie: the matching kuhn_munkres settles on.
from_results(results, groups, teams, hasher, tie) ==
    LET acc == fold_results(NoAggregate, results)
        likely_winner == most_likely_winner(acc.team_stats, hasher)
    IN [total_simulations |-> Len(results),
        team_stats |-> acc.team_stats,
        most_likely_winner |-> likely_winner,
        most_likely_final |-> most_likely_final(acc.finals_count, hasher),
        path_stats |-> [t \in TeamIds |->
                           prune_paths(acc.path_stats[t], MAX_PATH_ENTRIES, hasher)],
        bracket_slot_stats |-> acc.bracket_slot_stats,
        bracket_slot_win_stats |-> acc.bracket_slot_win_stats,
        slot_opponent_stats |-> acc.slot_opponent_stats,
        most_frequent_bracket |->
            most_frequent_bracket(acc.bracket_outcomes, likely_winner, hasher),
        most_likely_bracket |->
            compute_greedy_bracket(acc.team_stats, acc.bracket_slot_win_stats,
                                   acc.bracket_slot_stats, hasher),
        optimal_bracket |->
            compute_optimal_bracket(teams, groups, acc.bracket_slot_stats,
                                    acc.bracket_slot_win_stats, tie)]

(***************************************************************************)
(* from_results as a state machine: a list of results is aggregated, and   *)
(* then a permutation of the same list is.                                 *)
(***************************************************************************)
MaxResults == 2

\* tournament.teams, as ids
team_ids == table([i \in 1..NUM_TEAMS |-> i - 1])

\* The streams behind the aggregated lists.
AggregateStreams ==
    {Stream(<<1, 2, 3, 4>>, DrawnEFGHIJKL, "home"),
     Stream(<<1, 2, 3, 4>>, DrawnEFGHIJKL, "away"),
     Stream(<<4, 2, 1, 3>>, DrawnEFGHIJKL, "mixed"),
     Stream(<<1, 2, 3, 4>>, DrawnDEFGIJKL, "home")}

ResultLists ==
    UNION {[1..n -> {simulate(BlockTournament, s) : s \in AggregateStreams}] :
              n \in 1..MaxResults}

\* The list in another order: rotated left by k.
rotated(list, k) ==
    table([i \in DOMAIN list |-> list[((i - 1 + k) % Len(list)) + 1]])

\* kuhn_munkres returned, for these results, a matching within its contract.
within_contract(list, groups, tie) ==
    LET acc == fold_results(NoAggregate, list)
        weights == weights_matrix(team_ids, groups, acc.bracket_slot_stats,
                                  acc.bracket_slot_win_stats)
    IN is_maximum_matching(weights, kuhn_munkres(weights, tie))

AggregateIdle ==
    /\ tournament_results = <<>>
    /\ aggregated = None
    /\ aggregated_permuted = None
    /\ km_tie = "first"
    /\ apc = "idle"

AggregateStart ==
    /\ tournament_results \in ResultLists
    /\ aggregated = None
    /\ aggregated_permuted = None
    /\ km_tie \in KmTies
    /\ apc = "collected"

\* AggregatedResults::from_results(results, tournament)
FromResults ==
    /\ apc = "collected"
    /\ within_contract(tournament_results, BlockTournament, km_tie)
    /\ \E hasher \in Hashers :
          aggregated' = Some(from_results(tournament_results, BlockTournament,
                                          team_ids, hasher, km_tie))
    /\ apc' = "aggregated"
    /\ UNCHANGED <<tournament_results, aggregated_permuted, km_tie>>
    /\ UNCHANGED <<bracketVars, matchVars, runnerVars, groupVars,
                   engineVars, validateVars, lateVars>>

\* AggregatedResults::from_results on the same results in another order.
FromResultsPermuted ==
    /\ apc = "aggregated"
    /\ \E permuted \in {rotated(tournament_results, k) :
                             k \in 0..(Len(tournament_results) - 1)} :
          /\ within_contract(permuted, BlockTournament, km_tie)
          /\ \E hasher \in Hashers :
                aggregated_permuted' = Some(from_results(permuted, BlockTournament,
                                                        team_ids, hasher, km_tie))
    /\ apc' = "both"
    /\ UNCHANGED <<tournament_results, aggregated, km_tie>>
    /\ UNCHANGED <<bracketVars, matchVars, runnerVars, groupVars,
                   engineVars, validateVars, lateVars>>

(***************************************************************************)
(* SimulationRunner (wc-simulation/runner.rs): run_with_progress, the      *)
(* sequential driver, and run, the parallel one.  Runs follow one another  *)
(* on the same tournament, strategy and configuration.                     *)
(***************************************************************************)
MaxIterations == 2
MaxThreads == 2
MaxRuns == 2

\* u64 seeds are counted in a ring of SeedModulus values.
SeedModulus == 64
DEFAULT_SEED == 42

\* u64::wrapping_add
wrapping_add(a, b) == (a + b) % SeedModulus

\* What the system clock reads when a run starts (as_nanos() as u64).
ClockSeeds == {5, 42}

\* ChaCha8Rng::seed_from_u64: the stream is a fixed function of the seed.
RunnerStreams ==
    << Stream(<<1, 2, 3, 4>>, DrawnEFGHIJKL, "home"),
       Stream(<<1, 2, 3, 4>>, DrawnEFGHIJKL, "away"),
       Stream(<<4, 2, 1, 3>>, DrawnEFGHIJKL, "mixed"),
       Stream(<<1, 2, 3, 4>>, DrawnEFGHIJKL, "upset") >>

seed_from_u64(seed) == RunnerStreams[(seed % Len(RunnerStreams)) + 1]

\* Option::None of the numeric options seed and parallelism.
Unset == [is_some |-> FALSE, value |-> 0]

SimulationConfigs ==
    {[iterations |-> n, seed |-> s, parallelism |-> p] :
        n \in 1..MaxIterations,
        s \in {Unset, Some(7), Some(SeedModulus - 1)},
        p \in {Unset, Some(1)}}

\* The base seed of run: the configured seed, else the clock.
run_base_seed(seed, now) == IF seed.is_some THEN seed.value ELSE now

\* A run_with_progress that, like run, falls back to the clock.
run_with_progress_base_seed_from_clock(seed, now) == IF seed.is_some THEN seed.value ELSE now

\* The base seed of run_with_progress: the configured seed, else 42.
run_with_progress_base_seed(seed, now) == IF seed.is_some THEN seed.value ELSE DEFAULT_SEED

\* The threads of the pool: config.parallelism, else those of the host.
num_threads(parallelism) == IF parallelism.is_some THEN parallelism.value ELSE MaxThreads

\* One iteration: seed the generator and simulate the tournament with it.
simulate_with_seed(seed) == simulate(BlockTournament, seed_from_u64(seed))

\* The seeds of the iterations 0..iterations-1.
iteration_seeds(base, iterations) ==
    table([k \in 1..iterations |-> wrapping_add(base, k - 1)])

\* The results of the iterations, in the order of their indices.
simulate_all(seeds) == table([k \in DOMAIN seeds |-> simulate_with_seed(seeds[k])])

\* The on_progress calls of the loop of run_with_progress.
progress_reports(iterations) ==
    SelectSeq([k \in 1..iterations |-> <<k, iterations>>],
              LAMBDA c : (c[1] - 1) % 100 = 0 \/ c[1] - 1 = iterations - 1)

RunOutput(mode, seeds, output) == [mode |-> mode, seeds |-> seeds, aggregated |-> output]

RunnerIdle ==
    /\ config = [iterations |-> 0, seed |-> Unset, parallelism |-> Unset]
    /\ base_seed = 0
    /\ slots = <<>>
    /\ running = {}
    /\ progress_calls = <<>>
    /\ outputs = <<>>
    /\ rpc = "idle"

RunnerStart ==
    /\ config \in SimulationConfigs
    /\ base_seed = 0
    /\ slots = <<>>
    /\ running = {}
    /\ progress_calls = <<>>
    /\ outputs = <<>>
    /\ rpc = "ready"

\* SimulationRunner::run_with_progress
RunWithProgress ==
    /\ rpc = "ready"
    /\ Len(outputs) < MaxRuns
    /\ \E base \in {run_with_progress_base_seed(config.seed, now) : now \in ClockSeeds} :
          \E results \in {simulate_all(iteration_seeds(base, config.iterations))} :
             /\ within_contract(results, BlockTournament, km_tie)
             /\ \E hasher \in Hashers :
                   outputs' = Append(outputs,
                       RunOutput("sequential", iteration_seeds(base, config.iterations),
                                 from_results(results, BlockTournament, team_ids,
                                              hasher, km_tie)))
    /\ progress_calls' = progress_reports(config.iterations)
    /\ UNCHANGED <<config, base_seed, slots, running, rpc>>
    /\ UNCHANGED <<bracketVars, matchVars, aggVars, groupVars,
                   engineVars, validateVars, lateVars>>

\* SimulationRunner::run up to the parallel iterator: base seed and thread pool.
RunBegin ==
    /\ rpc = "ready"
    /\ Len(outputs) < MaxRuns
    /\ \E base \in {run_base_seed(config.seed, now) : now \in ClockSeeds} :
          base_seed' = base
    /\ slots' = [i \in 0..(config.iterations - 1) |-> None]
    /\ running' = {}
    /\ rpc' = "parallel"
    /\ UNCHANGED <<config, progress_calls, outputs>>
    /\ UNCHANGED <<bracketVars, matchVars, aggVars, groupVars,
                   engineVars, validateVars, lateVars>>

\* A worker of the pool takes an index nobody took and derives its seed.
WorkerClaim ==
    /\ rpc = "parallel"
    /\ Cardinality(running) < num_threads(config.parallelism)
    /\ \E i \in DOMAIN slots :
          /\ ~slots[i].is_some
          /\ \A w \in running : w[1] # i
          /\ running' = running \cup {<<i, wrapping_add(base_seed, i)>>}
    /\ UNCHANGED <<config, base_seed, slots, progress_calls, outputs, rpc>>
    /\ UNCHANGED <<bracketVars, matchVars, aggVars, groupVars,
                   engineVars, validateVars, lateVars>>

\* The worker simulates and leaves the result at its index.
WorkerFinish ==
    /\ rpc = "parallel"
    /\ \E w \in running :
          /\ slots' = [slots EXCEPT ![w[1]] =
                          Some([seed |-> w[2], result |-> simulate_with_seed(w[2])])]
          /\ running' = running \ {w}
    /\ UNCHANGED <<config, base_seed, progress_calls, outputs, rpc>>
    /\ UNCHANGED <<bracketVars, matchVars, aggVars, groupVars,
                   engineVars, validateVars, lateVars>>

\* collect() in index order, then from_results.
RunCollect ==
    /\ rpc = "parallel"
    /\ \A i \in DOMAIN slots : slots[i].is_some
    /\ \E results \in {table([k \in 1..config.iterations |-> slots[k - 1].value.result])} :
          /\ within_contract(results, BlockTournament, km_tie)
          /\ \E hasher \in Hashers :
                outputs' = Append(outputs,
                    RunOutput("parallel",
                              table([k \in 1..config.iterations |-> slots[k - 1].value.seed]),
                              from_results(results, BlockTournament, team_ids,
                                           hasher, km_tie)))
    /\ slots' = <<>>
    /\ rpc' = "ready"
    /\ UNCHANGED <<config, base_seed, running, progress_calls>>
    /\ UNCHANGED <<bracketVars, matchVars, aggVars, groupVars,
                   engineVars, validateVars, lateVars>>

(***************************************************************************)
(* Tournament::validate (wc-core/tournament.rs).  A tournament is the list *)
(* of its teams, as ids, and the list of its groups.                       *)
(***************************************************************************)
\* Result<(), TournamentError>
Ok == [kind |-> "Ok", value |-> 0]
Err(kind, value) == [kind |-> kind, value |-> value]

\* Tournament::get_team(id).is_some()
get_team_is_some(teams, id) == \E i \in DOMAIN teams : teams[i] = id

\* The team ids of the groups in the order the loops of validate visit them.
RECURSIVE listed_teams(_)
listed_teams(groups) ==
    IF groups = <<>> THEN <<>> ELSE Head(groups).teams \o listed_teams(Tail(groups))

\* The first listed id that get_team does not find.
first_missing(listed, teams) ==
    LET hits == {i \in DOMAIN listed : ~get_team_is_some(teams, listed[i])}
    IN IF hits = {} THEN None
       ELSE Some(listed[CHOOSE i \in hits : \A j \in hits : i <= j])

\* The first id that HashSet::insert has already seen.
first_repeated(listed) ==
    LET hits == {i \in DOMAIN listed : \E j \in 1..(i - 1) : listed[j] = listed[i]}
    IN IF hits = {} THEN None
       ELSE Some(listed[CHOOSE i \in hits : \A j \in hits : i <= j])

\* A validation that looks at the groups before the teams.
validate_group_count_first(teams, groups) ==
    IF Len(groups) # NUM_GROUPS THEN Err("InvalidGroupCount", Len(groups))
    ELSE IF Len(teams) # NUM_TEAMS THEN Err("InvalidTeamCount", Len(teams))
    ELSE IF first_missing(listed_teams(groups), teams).is_some
         THEN Err("TeamNotFound", first_missing(listed_teams(groups), teams).value)
    ELSE IF first_repeated(listed_teams(groups)).is_some
         THEN Err("DuplicateTeam", first_repeated(listed_teams(groups)).value)
    ELSE Ok

\* Tournament::validate
validate(teams, groups) ==
    IF Len(teams) # NUM_TEAMS THEN Err("InvalidTeamCount", Len(teams))
    ELSE IF Len(groups) # NUM_GROUPS THEN Err("InvalidGroupCount", Len(groups))
    ELSE IF first_missing(listed_teams(groups), teams).is_some
         THEN Err("TeamNotFound", first_missing(listed_teams(groups), teams).value)
    ELSE IF first_repeated(listed_teams(groups)).is_some
         THEN Err("DuplicateTeam", first_repeated(listed_teams(groups)).value)
    ELSE Ok

\* Team lists: 47, 48 and 49 teams with ids from 0, and 48 teams of which
\* the last carries id 48, or id 0 a second time, instead of 47.
TeamLists ==
    {[i \in 1..n |-> i - 1] : n \in {NUM_TEAMS - 1, NUM_TEAMS, NUM_TEAMS + 1}}
        \cup {[i \in 1..NUM_TEAMS |-> IF i = NUM_TEAMS THEN x ELSE i - 1] : x \in {0, NUM_TEAMS}}

\* A draw with the team at place k of group g replaced by team x.
with_team(groups, g, k, x) ==
    [groups EXCEPT ![g] = Group(groups[g].id, [groups[g].teams EXCEPT ![k] = x])]

\* A draw with the letter of group g replaced by id.
with_id(groups, g, id) == [groups EXCEPT ![g] = Group(id, groups[g].teams)]

\* Group lists: the two valid draws, a draw short of a group and one with a
\* group too many, draws with one or two places given to another team, and
\* draws in which two groups carry the same letter.
GroupLists ==
    {BlockTournament, StridedTournament,
     with_id(BlockTournament, NUM_GROUPS, "A"), with_id(StridedTournament, 1, "B"),
     SubSeq(BlockTournament, 1, NUM_GROUPS - 1),
     Append(BlockTournament, Group("M", <<48, 49, 50, 51>>))}
        \cup {with_team(BlockTournament, g, k, x) :
                 g \in {1, NUM_GROUPS}, k \in {1, TEAMS_PER_GROUP}, x \in {0, 47, 48}}
        \cup {with_team(with_team(BlockTournament, 1, 2, 5), g, 3, x) :
                 g \in {1, NUM_GROUPS}, x \in {48, 5}}

\* SimulationEngine::simulate on a tournament of any shape: None where a
\* lookup of the run panics (the unwrap of get_team in simulate_group, the
\* panic of build_r32_pairings, the expect of resolve_slot).
simulate_or_panic(teams, groups, stream) ==
    IF \E i \in DOMAIN groups : \E k \in DOMAIN groups[i].teams :
          ~get_team_is_some(teams, groups[i].teams[k])
    THEN None
    ELSE LET results == table([i \in DOMAIN groups |->
                            GroupOutcome(groups[i], stream.order, i \in stream.drawn)])
             qualifying_thirds == engine_qualifying_thirds(results)
             assigned == get_third_place_assignments(qualifying_key(qualifying_thirds))
         IN IF ~assigned.is_some THEN None
            ELSE LET pairs == pairings_for(engine_winners(results),
                                           engine_runners_up(results),
                                           qualifying_thirds, assigned.value)
                 IN IF \E k \in DOMAIN pairs : Missing \in {pairs[k][1], pairs[k][2]}
                    THEN None
                    ELSE Some(simulate(groups, stream))

ValidateIdle ==
    /\ v_teams = <<>>
    /\ v_groups = <<>>
    /\ v_outcome = None
    /\ v_result = None
    /\ vpc = "idle"

\* Tournament::new
ValidateStart ==
    /\ v_teams \in TeamLists
    /\ v_groups \in GroupLists
    /\ v_outcome = None
    /\ v_result = None
    /\ vpc = "constructed"

\* Tournament::validate
Validate ==
    /\ vpc = "constructed"
    /\ v_outcome' = Some(validate(v_teams, v_groups))
    /\ vpc' = "validated"
    /\ UNCHANGED <<v_teams, v_groups, v_result>>
    /\ UNCHANGED <<bracketVars, matchVars, aggVars, runnerVars, groupVars, engineVars,
                   lateVars>>

\* SimulationEngine::simulate on a tournament that validate accepted.
SimulateAccepted ==
    /\ vpc = "validated"
    /\ v_outcome.value = Ok
    /\ \E stream \in Streams :
          \E run \in {simulate_or_panic(v_teams, v_groups, stream)} :
             /\ v_result' = run
             /\ vpc' = IF run.is_some THEN "simulated" ELSE "panicked"
    /\ UNCHANGED <<v_teams, v_groups, v_outcome>>
    /\ UNCHANGED <<bracketVars, matchVars, aggVars, runnerVars, groupVars, engineVars,
                   lateVars>>

(***************************************************************************)
(* The loop of run_with_progress, iteration by iteration, for runs of more *)
(* than a hundred iterations.  What an iteration simulates plays no part   *)
(* in the loop's control flow: each iteration is followed by the seed of   *)
(* its generator, and results by its length.                               *)
(***************************************************************************)
MaxLoopIterations == 250

\* A loop condition that reports every hundredth iteration only.
progress_due_every_hundredth(i, iterations) == i % 100 = 0

\* `i % 100 == 0 || i == self.config.iterations - 1`
progress_due(i, iterations) == i % 100 = 0 \/ i = iterations - 1

ProgressIdle ==
    /\ seq_iterations = 0
    /\ seq_seed = Unset
    /\ seq_clock = 0
    /\ seq_base_seed = 0
    /\ seq_rng_seed = Unset
    /\ seq_i = 0
    /\ seq_results = 0
    /\ seq_calls = <<>>
    /\ seq_total = Unset
    /\ spc = "idle"

\* run_with_progress up to the loop: base_seed, Vec::with_capacity(iterations)
ProgressStart ==
    /\ seq_iterations \in 1..MaxLoopIterations
    /\ seq_seed \in {Unset, Some(7), Some(SeedModulus - 1)}
    /\ seq_clock \in ClockSeeds
    /\ seq_base_seed = run_with_progress_base_seed(seq_seed, seq_clock)
    /\ seq_rng_seed = Unset
    /\ seq_i = 0
    /\ seq_results = 0
    /\ seq_calls = <<>>
    /\ seq_total = Unset
    /\ spc = "loop"

\* The body of `for i in 0..self.config.iterations`: seed, push, report.
LoopIteration ==
    /\ spc = "loop"
    /\ seq_i < seq_iterations
    /\ seq_rng_seed' = Some(wrapping_add(seq_base_seed, seq_i))
    /\ seq_results' = seq_results + 1
    /\ seq_calls' = IF progress_due(seq_i, seq_iterations)
                    THEN Append(seq_calls, <<seq_i + 1, seq_iterations>>)
                    ELSE seq_calls
    /\ seq_i' = seq_i + 1
    /\ UNCHANGED <<seq_iterations, seq_seed, seq_clock, seq_base_seed, seq_total, spc>>
    /\ UNCHANGED <<baseVars, capVars>>

\* The range is exhausted: from_results(results, ..), total = results.len().
LoopReturn ==
    /\ spc = "loop"
    /\ seq_i = seq_iterations
    /\ seq_total' = Some(seq_results)
    /\ spc' = "returned"
    /\ UNCHANGED <<seq_iterations, seq_seed, seq_clock, seq_base_seed, seq_rng_seed,
                   seq_i, seq_results, seq_calls>>
    /\ UNCHANGED <<baseVars, capVars>>

(***************************************************************************)
(* bracket_outcomes along the loop of from_results, from the point where   *)
(* the results aggregated so far left close to MAX_UNIQUE_BRACKETS         *)
(* signatures in the map, each seen once.                                  *)
(***************************************************************************)
MaxPresented == 3

\* How many results with pairwise different brackets were aggregated before.
TrackedBefore == {MAX_UNIQUE_BRACKETS - 2, MAX_UNIQUE_BRACKETS - 1, MAX_UNIQUE_BRACKETS}

\* The Round-of-32 pairings of the block tournament with the thirds of E..L.
TrackedPairings ==
    engine_build_r32_pairings(table([i \in DOMAIN BlockTournament |->
        GroupOutcome(BlockTournament[i], <<1, 2, 3, 4>>, i \in DrawnEFGHIJKL)]))

\* Bracket number n: Round-of-32 match k (from 0) goes to the away team when
\* bit k of n is set, every other match to the home team.
numbered_round_of_32(pairings, n) ==
    table([k \in DOMAIN pairings |->
        played(pairings[k][1], pairings[k][2],
               IF (n \div (2 ^ (k - 1))) % 2 = 1 THEN "away" ELSE "home")])

numbered_bracket(n) ==
    LET round_of_32 == numbered_round_of_32(TrackedPairings, n)
        round_of_16 == simulate_knockout_round(filter_map_winner(round_of_32),
                                               "round_of_16", "home")
        quarter_finals == simulate_knockout_round(filter_map_winner(round_of_16),
                                                  "quarter_finals", "home")
        semi_finals == simulate_knockout_round(filter_map_winner(quarter_finals),
                                               "semi_finals", "home")
    IN [round_of_32 |-> round_of_32,
        round_of_16 |-> round_of_16,
        quarter_finals |-> quarter_finals,
        semi_finals |-> semi_finals,
        third_place |-> played(filter_map_loser(semi_finals)[1],
                               filter_map_loser(semi_finals)[2], "home"),
        final_match |-> played(filter_map_winner(semi_finals)[1],
                               filter_map_winner(semi_finals)[2], "home")]

\* The map after the brackets 0..h-1 were each aggregated once.
tracked_after(h) ==
    {<<create_bracket_signature(numbered_bracket(n)), <<1, numbered_bracket(n)>>>> :
        n \in 0..(h - 1)}

\* The brackets of the results that follow: some in the map, some not.
PresentedNumbers ==
    {0, MAX_UNIQUE_BRACKETS - 3, MAX_UNIQUE_BRACKETS - 1, MAX_UNIQUE_BRACKETS,
     MAX_UNIQUE_BRACKETS + 1}

CapIdle ==
    /\ cap_outcomes = {}
    /\ cap_presented = NoBracket
    /\ cap_seen = 0
    /\ cpc = "idle"

CapStart ==
    /\ cap_outcomes \in {tracked_after(h) : h \in TrackedBefore}
    /\ cap_presented = NoBracket
    /\ cap_seen = 0
    /\ cpc = "folding"

\* One more iteration of `for result in &results`, as far as it concerns
\* bracket_outcomes.
TrackBracket ==
    /\ cpc = "folding"
    /\ cap_seen < MaxPresented
    /\ \E n \in PresentedNumbers :
          /\ cap_presented' = numbered_bracket(n)
          /\ cap_outcomes' = record_bracket(cap_outcomes, numbered_bracket(n))
    /\ cap_seen' = cap_seen + 1
    /\ UNCHANGED cpc
    /\ UNCHANGED <<baseVars, progressVars>>

(***************************************************************************)
(* Specifications.                                                         *)
(***************************************************************************)
\* The components that a specification leaves untouched.
LateIdle == ProgressIdle /\ CapIdle

LaterIdle == GroupIdle /\ EngineIdle /\ ValidateIdle /\ LateIdle

InitBracket == BracketStart /\ MatchIdle /\ AggregateIdle /\ RunnerIdle /\ LaterIdle

NextBracket == BuildR32Pairings \/ ComputeThirdPlaceAssignments

SpecBracket == InitBracket /\ [][NextBracket]_vars

InitMatch == MatchStart /\ BracketIdle /\ AggregateIdle /\ RunnerIdle /\ LaterIdle

NextMatch ==
    \/ SampleRegulation
    \/ SampleExtraTime
    \/ PenaltyHomeKick
    \/ PenaltyAwayKick
    \/ SuddenDeathRound
    \/ ReturnPenalties

SpecMatch == InitMatch /\ [][NextMatch]_vars

InitAggregate == AggregateStart /\ BracketIdle /\ MatchIdle /\ RunnerIdle /\ LaterIdle

NextAggregate == FromResults \/ FromResultsPermuted

SpecAggregate == InitAggregate /\ [][NextAggregate]_vars

\* The runner calls from_results with the kuhn_munkres of its build.
AggregateUnused ==
    /\ tournament_results = <<>>
    /\ aggregated = None
    /\ aggregated_permuted = None
    /\ km_tie \in KmTies
    /\ apc = "idle"

InitRunner == RunnerStart /\ BracketIdle /\ MatchIdle /\ AggregateUnused /\ LaterIdle

NextRunner ==
    \/ RunWithProgress
    \/ RunBegin
    \/ WorkerClaim
    \/ WorkerFinish
    \/ RunCollect

SpecRunner == InitRunner /\ [][NextRunner]_vars

\* The components before the group stage, the engine and the validation.
EarlierIdle == BracketIdle /\ MatchIdle /\ AggregateIdle /\ RunnerIdle

InitGroup == GroupStart /\ EarlierIdle /\ EngineIdle /\ ValidateIdle /\ LateIdle

NextGroup == PlayGroupMatches \/ ResolveGroup

SpecGroup == InitGroup /\ [][NextGroup]_vars

InitEngine == EngineStart /\ EarlierIdle /\ GroupIdle /\ ValidateIdle /\ LateIdle

NextEngine ==
    \/ SimulateGroupStage
    \/ EngineBuildR32Pairings
    \/ SimulateRoundOf32
    \/ SimulateRoundOf16
    \/ SimulateQuarterFinals
    \/ SimulateSemiFinals
    \/ SimulateThirdPlaceAndFinal
    \/ ExtractFinalStandings

SpecEngine == InitEngine /\ [][NextEngine]_vars

InitValidate == ValidateStart /\ EarlierIdle /\ GroupIdle /\ EngineIdle /\ LateIdle

NextValidate == Validate \/ SimulateAccepted

SpecValidate == InitValidate /\ [][NextValidate]_vars

AllIdle == EarlierIdle /\ GroupIdle /\ EngineIdle /\ ValidateIdle

InitProgress == ProgressStart /\ AllIdle /\ CapIdle

NextProgress == LoopIteration \/ LoopReturn

SpecProgress == InitProgress /\ [][NextProgress]_vars

InitCap == CapStart /\ AllIdle /\ ProgressIdle

NextCap == TrackBracket

SpecCap == InitCap /\ [][NextCap]_vars

(***************************************************************************)
(* Properties of the bracket resolver.                                     *)
(***************************************************************************)
PairedTeams == {r32_pairings[k][1] : k \in DOMAIN r32_pairings}
                   \cup {r32_pairings[k][2] : k \in DOMAIN r32_pairings}

QualifyingKey == qualifying_key(engine_qualifying_thirds(group_results))

\* An assignment a for key: 8 distinct letters of the key, a[i] from pool i.
RespectsPools(a) ==
    \A i \in 1..8 : a[i] \in Range(THIRD_PLACE_POOLS[i])

UsesKeyOnce(a, key) ==
    /\ Len(a) = 8
    /\ Range(a) = Range(key)
    /\ Cardinality(Range(a)) = 8

\* C1: the 16 Round-of-32 pairings built from the group results hold exactly
\* 32 pairwise distinct team ids: the 12 group winners, the 12 runners-up
\* and the 8 qualifying third-placed teams, each once.
C1_R32PairingsDistinct ==
    bpc.engine = "paired" =>
        /\ Len(r32_pairings) = 16
        /\ Cardinality(PairedTeams) = 32
        /\ PairedTeams =
              {group_results[i].standings[1].team_id : i \in DOMAIN group_results}
              \cup {group_results[i].standings[2].team_id : i \in DOMAIN group_results}
              \cup {engine_qualifying_thirds(group_results)[i][2] : i \in 1..8}

\* C1 witness: pairings were built for a key found in the lookup table whose
\* table entry breaks a pool constraint.
C1_Witness ==
    /\ bpc.engine = "paired"
    /\ THIRD_PLACE_TABLE_get(QualifyingKey).is_some
    /\ ~RespectsPools(third_assignments.value)
    /\ Cardinality(PairedTeams) = 32

\* C2: get_third_place_assignments returns 8 distinct letters of the key with
\* the letter at index i taken from pool i, for every key, also when the key
\* has an entry in the lookup table.
C2_LookupRespectsPools ==
    bpc.engine = "paired" =>
        /\ third_assignments.is_some
        /\ UsesKeyOnce(third_assignments.value, QualifyingKey)
        /\ RespectsPools(third_assignments.value)

\* C3: the backtracking solver returns Some assignment for every legal key,
\* using each qualifying letter once with the letter at index i from pool i,
\* and build_r32_pairings never panics.
C3_SolverTotal ==
    /\ bpc.engine # "panicked"
    /\ bpc.solver = "returned" =>
          /\ solver_result.is_some
          /\ UsesKeyOnce(solver_result.value, QualifyingKey)
          /\ RespectsPools(solver_result.value)

\* C3 witness: the solver returned an assignment for a key the table lacks,
\* the first pool letter of slot 0 not being the one finally assigned.
C3_Witness ==
    /\ bpc.solver = "returned"
    /\ solver_result.is_some
    /\ ~THIRD_PLACE_TABLE_get(QualifyingKey).is_some
    /\ "A" \in Range(QualifyingKey)
    /\ solver_result.value[1] # "A"

(***************************************************************************)
(* Properties of the match sampler.                                        *)
(***************************************************************************)
\* C6: every match sampled with is_knockout = true has a winner: once the
\* sampler has returned, winner() is Some, and a result with equal goals
\* carries a penalty result whose two scores differ.
C6_KnockoutHasWinner ==
    (mpc = "done" /\ ctx.is_knockout) =>
        /\ winner(result).is_some
        /\ winner(result).value \in {ctx.home_team, ctx.away_team}
        /\ result.home_goals = result.away_goals =>
              /\ result.penalties.is_some
              /\ result.penalties.value.home_penalties
                    # result.penalties.value.away_penalties

\* C6 witness: a knockout match level after extra time was decided in the
\* sudden-death phase of the shootout.
C6_Witness ==
    /\ mpc = "done"
    /\ ctx.is_knockout
    /\ result.extra_time
    /\ result.home_goals = result.away_goals
    /\ result.penalties.is_some
    /\ shootout.sudden > 0
    /\ winner(result).is_some

(***************************************************************************)
(* The optimal bracket of an aggregation.                                  *)
(***************************************************************************)
\* The teams on the sides of the Round-of-32 matches of a bracket.
SidesOf(r32) ==
    {r32[k].team_a.team_id : k \in DOMAIN r32} \cup {r32[k].team_b.team_id : k \in DOMAIN r32}

\* The winners recorded for a bracket slot of the Round of 32.
R32WinnersAt(r32, slot) == {r32[k].winner : k \in {j \in DOMAIN r32 : r32[j].slot = slot}}

\* The team recorded for a slot of a later round (a map slot -> team).
TeamsAt(round, slot) == {e[2].team_id : e \in {x \in round : x[1] = slot}}

\* C4: the optimal bracket of any aggregation has a round_of_32 of 16
\* matches whose 32 sides hold 32 pairwise distinct teams, every team
\* eligible for its position under the template.
C4_OptimalBracketFilled ==
    aggregated.is_some =>
        LET r32 == aggregated.value.optimal_bracket.round_of_32
        IN /\ Len(r32) = 16
           /\ Cardinality(SidesOf(r32)) = NUM_POSITIONS
           /\ \A k \in DOMAIN r32 :
                 /\ r32[k].team_a.team_id # r32[k].team_b.team_id
                 /\ <<r32[k].slot, 0>> \in valid_positions(BlockTournament, r32[k].team_a.team_id)
                 /\ <<r32[k].slot, 1>> \in valid_positions(BlockTournament, r32[k].team_b.team_id)

\* C5: in the optimal bracket the winner of R16 slot k is the winner of R32
\* bracket slot 2k or 2k+1, the winner of QF slot k that of R16 slot 2k or
\* 2k+1, the winner of SF slot k that of QF slot 2k or 2k+1, and the
\* champion the winner of one of the two semi-finals.
C5_OptimalWinnersFromFeeders ==
    aggregated.is_some =>
        LET ob == aggregated.value.optimal_bracket
        IN /\ \A e \in ob.round_of_16 :
                 e[2].team_id \in R32WinnersAt(ob.round_of_32, 2 * e[1])
                                     \cup R32WinnersAt(ob.round_of_32, 2 * e[1] + 1)
           /\ \A e \in ob.quarter_finals :
                 e[2].team_id \in TeamsAt(ob.round_of_16, 2 * e[1])
                                     \cup TeamsAt(ob.round_of_16, 2 * e[1] + 1)
           /\ \A e \in ob.semi_finals :
                 e[2].team_id \in TeamsAt(ob.quarter_finals, 2 * e[1])
                                     \cup TeamsAt(ob.quarter_finals, 2 * e[1] + 1)
           /\ ob.champion.is_some =>
                 ob.champion.value.team_id \in TeamsAt(ob.semi_finals, 0)
                                                  \cup TeamsAt(ob.semi_finals, 1)

(***************************************************************************)
(* Order of the results handed to from_results.                            *)
(***************************************************************************)
\* C9: from_results gives the same per-team counters, slot participation,
\* win and opponent histograms, path histograms and most_frequent_bracket
\* for a list of results and for any permutation of it.
C9_FromResultsOrderIndependent ==
    apc = "both" =>
        /\ aggregated.value.team_stats = aggregated_permuted.value.team_stats
        /\ aggregated.value.bracket_slot_stats = aggregated_permuted.value.bracket_slot_stats
        /\ aggregated.value.bracket_slot_win_stats
              = aggregated_permuted.value.bracket_slot_win_stats
        /\ aggregated.value.slot_opponent_stats = aggregated_permuted.value.slot_opponent_stats
        /\ aggregated.value.path_stats = aggregated_permuted.value.path_stats
        /\ aggregated.value.most_frequent_bracket
              = aggregated_permuted.value.most_frequent_bracket

(***************************************************************************)
(* Reproducibility of the runs.                                            *)
(***************************************************************************)
SequentialRuns == {a \in DOMAIN outputs : outputs[a].mode = "sequential"}

ParallelRuns == {a \in DOMAIN outputs : outputs[a].mode = "parallel"}

\* C7: two sequential runs with the same tournament, strategy, iterations
\* and seed return the same per-team counters.
C7_SequentialCountersReproducible ==
    \A a, b \in SequentialRuns :
        outputs[a].aggregated.team_stats = outputs[b].aggregated.team_stats

\* C7 witness: two sequential runs of more than one iteration have returned,
\* and their simulations crowned two different champions.
C7_Witness ==
    /\ Cardinality(SequentialRuns) = 2
    /\ config.iterations > 1
    /\ Cardinality({t \in TeamIds : outputs[1].aggregated.team_stats[t].champion > 0}) > 1
    /\ Cardinality({t \in TeamIds : outputs[2].aggregated.team_stats[t].champion > 0}) > 1

\* C8: in sequential mode every field of the aggregated output is the same
\* for the same tournament, strategy, iterations and seed.
C8_SequentialOutputDeterministic ==
    \A a, b \in SequentialRuns : outputs[a].aggregated = outputs[b].aggregated

\* C10: with a supplied seed, a parallel run computes simulation i from
\* seed base+i under every schedule, and returns the aggregated result that
\* every other run, parallel or sequential, returns.
C10_ParallelMatchesSequential ==
    config.seed.is_some =>
        \A a \in ParallelRuns :
            /\ outputs[a].seeds = iteration_seeds(config.seed.value, config.iterations)
            /\ \A b \in DOMAIN outputs : outputs[a].aggregated = outputs[b].aggregated

(***************************************************************************)
(* Totals of the aggregated counters.                                      *)
(***************************************************************************)
\* The sum of a counter over a set of teams.
RECURSIVE SumOver(_, _)
SumOver(count, teams) ==
    IF teams = {} THEN 0
    ELSE LET t == CHOOSE x \in teams : TRUE
         IN count[t] + SumOver(count, teams \ {t})

\* C11: after aggregating N results, the champion counts of all teams sum
\* to N, and so do the runner_up, third_place and fourth_place counts.
C11_PodiumCountsSumToN ==
    aggregated.is_some =>
        LET stats == aggregated.value.team_stats
            n == Len(tournament_results)
        IN /\ aggregated.value.total_simulations = n
           /\ SumOver([t \in TeamIds |-> stats[t].champion], TeamIds) = n
           /\ SumOver([t \in TeamIds |-> stats[t].runner_up], TeamIds) = n
           /\ SumOver([t \in TeamIds |-> stats[t].third_place], TeamIds) = n
           /\ SumOver([t \in TeamIds |-> stats[t].fourth_place], TeamIds) = n

\* C11 witness: two results with two different champions were aggregated.
C11_Witness ==
    /\ aggregated.is_some
    /\ Len(tournament_results) = 2
    /\ tournament_results[1].champion # tournament_results[2].champion
    /\ aggregated.value.team_stats[tournament_results[1].champion].champion = 1

\* The slots a histogram of either kind has an entry for.
SlotsOf(a, b) == map_keys(a) \cup map_keys(b)

\* C12: after any aggregation, for every team, every knockout round and
\* every slot, the wins recorded for the team at the slot do not exceed the
\* participations recorded for the team at the slot.
C12_WinsWithinParticipation ==
    aggregated.is_some =>
        \A t \in TeamIds :
            LET wins == aggregated.value.bracket_slot_win_stats[t]
                part == aggregated.value.bracket_slot_stats[t]
            IN /\ \A slot \in SlotsOf(wins.round_of_32, part.round_of_32) :
                     map_count(wins.round_of_32, slot) <= map_count(part.round_of_32, slot)
               /\ \A slot \in SlotsOf(wins.round_of_16, part.round_of_16) :
                     map_count(wins.round_of_16, slot) <= map_count(part.round_of_16, slot)
               /\ \A slot \in SlotsOf(wins.quarter_finals, part.quarter_finals) :
                     map_count(wins.quarter_finals, slot)
                        <= map_count(part.quarter_finals, slot)
               /\ \A slot \in SlotsOf(wins.semi_finals, part.semi_finals) :
                     map_count(wins.semi_finals, slot) <= map_count(part.semi_finals, slot)
               /\ wins.final_match <= part.final_match

\* C12 witness: a team played twice in the same Round-of-32 slot as the away
\* side, won once and lost once.
C12_Witness ==
    /\ aggregated.is_some
    /\ \E t \in TeamIds, slot \in 0..15 :
          /\ map_count(aggregated.value.bracket_slot_stats[t].round_of_32, slot) = 2
          /\ map_count(aggregated.value.bracket_slot_win_stats[t].round_of_32, slot) = 1
          /\ \A i \in DOMAIN tournament_results :
                tournament_results[i].knockout_bracket.round_of_32[slot + 1].away_team = t

(***************************************************************************)
(* The standings of a group.                                               *)
(***************************************************************************)
\* Two standings are level on points, goal difference and goals scored.
Level(a, b) ==
    /\ a.points = b.points
    /\ goal_difference(a) = goal_difference(b)
    /\ a.goals_for = b.goals_for

\* The match of the group between two teams.
MutualMatch(a, b) ==
    CHOOSE m \in Range(grp_matches) : {m.home_team, m.away_team} = {a, b}

\* C13: the final standings of a group whose six matches were played hold
\* each of its four teams exactly once, a team with more points above one
\* with fewer, among equal points the greater goal difference higher, and
\* among equal points and goal difference the greater goals scored higher.
C13_StandingsPermutationOrdered ==
    gpc = "resolved" =>
        LET st == grp_result.standings
        IN /\ Len(st) = TEAMS_PER_GROUP
           /\ {st[i].team_id : i \in DOMAIN st} = Range(grp.teams)
           /\ \A i, j \in DOMAIN st : i < j =>
                 /\ st[i].team_id # st[j].team_id
                 /\ st[i].points >= st[j].points
                 /\ st[i].points = st[j].points =>
                       goal_difference(st[i]) >= goal_difference(st[j])
                 /\ (st[i].points = st[j].points
                        /\ goal_difference(st[i]) = goal_difference(st[j])) =>
                       st[i].goals_for >= st[j].goals_for

\* C13 witness: two teams level on points are apart on goal difference,
\* two teams level on points and goal difference are apart on goals scored,
\* and in both pairs the team ranked higher has the higher team id.
C13_Witness ==
    /\ gpc = "resolved"
    /\ LET st == grp_result.standings
       IN /\ \E i, j \in DOMAIN st :
                /\ i < j
                /\ st[i].points = st[j].points
                /\ goal_difference(st[i]) > goal_difference(st[j])
                /\ st[i].team_id > st[j].team_id
          /\ \E i, j \in DOMAIN st :
                /\ i < j
                /\ st[i].points = st[j].points
                /\ goal_difference(st[i]) = goal_difference(st[j])
                /\ st[i].goals_for > st[j].goals_for
                /\ st[i].team_id > st[j].team_id

\* C14: when exactly two teams of a group are level on points, goal
\* difference and goals scored, the winner of their mutual match is ranked
\* above the other, and after a drawn mutual match the lower team id is.
C14_HeadToHeadThenTeamId ==
    gpc = "resolved" =>
        LET st == grp_result.standings
        IN \A i, j \in DOMAIN st :
              (/\ i < j
               /\ Level(st[i], st[j])
               /\ \A k \in DOMAIN st \ {i, j} : ~Level(st[k], st[i])) =>
                  LET m == MutualMatch(st[i].team_id, st[j].team_id)
                  IN IF winner(m).is_some
                     THEN winner(m).value = st[i].team_id
                     ELSE st[i].team_id < st[j].team_id

\* C14 witness: exactly two teams are level, and the one with the higher
\* team id is ranked above the other for having won their match.
C14_Witness ==
    /\ gpc = "resolved"
    /\ LET st == grp_result.standings
       IN \E i \in 1..3 :
             /\ Level(st[i], st[i + 1])
             /\ \A k \in DOMAIN st \ {i, i + 1} : ~Level(st[k], st[i])
             /\ st[i].team_id > st[i + 1].team_id
             /\ won_by(MutualMatch(st[i].team_id, st[i + 1].team_id), st[i].team_id)

(***************************************************************************)
(* One simulated tournament.                                               *)
(***************************************************************************)
\* The third-placed standings of the simulated groups, and their ranking.
EngineThirds == [i \in DOMAIN eng_group_results |-> eng_group_results[i].standings[3]]

EngineRanked == rank_third_placed_teams(EngineThirds)

\* The teams on either side of the pairings.
EnginePaired ==
    {eng_pairings[k][1] : k \in DOMAIN eng_pairings}
        \cup {eng_pairings[k][2] : k \in DOMAIN eng_pairings}

\* The rank order of two third-placed standings.
RankedAbove(a, b) ==
    \/ a.points > b.points
    \/ a.points = b.points /\ goal_difference(a) > goal_difference(b)
    \/ a.points = b.points /\ goal_difference(a) = goal_difference(b)
          /\ a.goals_for > b.goals_for
    \/ a.points = b.points /\ goal_difference(a) = goal_difference(b)
          /\ a.goals_for = b.goals_for /\ a.team_id < b.team_id

\* C15: rank_third_placed_teams returns a permutation of the 12 third-placed
\* standings ordered by points, goal difference and goals scored, all
\* descending, then by ascending team id, and the third-placed teams in the
\* Round of 32 are exactly the first eight of that ranking.
C15_ThirdsRankedBestEightQualify ==
    epc = "paired" =>
        /\ Len(EngineRanked) = NUM_GROUPS
        /\ Range(EngineRanked) = Range(EngineThirds)
        /\ Cardinality(Range(EngineRanked)) = NUM_GROUPS
        /\ \A i, j \in DOMAIN EngineRanked :
              i < j => RankedAbove(EngineRanked[i], EngineRanked[j])
        /\ EnginePaired \cap {EngineThirds[i].team_id : i \in DOMAIN EngineThirds}
              = {EngineRanked[i].team_id : i \in 1..QUALIFYING_THIRDS}

\* C15 witness: the eighth and the ninth of the ranking are level on points
\* and the eighth, with the higher team id, is in the Round of 32.
C15_Witness ==
    /\ epc = "paired"
    /\ EngineRanked[8].points = EngineRanked[9].points
    /\ EngineRanked[8].team_id > EngineRanked[9].team_id
    /\ EngineRanked[8].team_id \in EnginePaired
    /\ EngineRanked[9].team_id \notin EnginePaired

\* The teams of a match.
TeamsOf(m) == {m.home_team, m.away_team}

\* C16: the Round-of-32 match with FIFA match number 79 includes the team
\* placed first in Group A and does not include the team placed second.
C16_Match79HasWinnerA ==
    epc = "round_of_32" =>
        \A k \in DOMAIN R32_BRACKET :
            R32_BRACKET[k].match_num = 79 =>
                /\ eng_group_results[1].group_id = "A"
                /\ eng_group_results[1].standings[1].team_id
                      \in TeamsOf(eng_bracket.round_of_32[k])
                /\ eng_group_results[1].standings[2].team_id
                      \notin TeamsOf(eng_bracket.round_of_32[k])

\* C16 witness: Group A was won by the team seeded last, which plays match
\* 79 and wins it.
C16_Witness ==
    /\ epc = "round_of_32"
    /\ eng_group_results[1].standings[1].team_id = 3
    /\ \E k \in DOMAIN R32_BRACKET :
          /\ R32_BRACKET[k].match_num = 79
          /\ won_by(eng_bracket.round_of_32[k], 3)

\* C17: bracket index 6 of the Round of 32 is FIFA match 79, and the match
\* round_of_32[6] of every simulated tournament includes the winner of
\* Group A and does not include the runner-up of Group A.
C17_Index6IsMatch79 ==
    eng_result.is_some =>
        LET group_a == eng_result.value.group_results[1]
            match_79 == eng_result.value.knockout_bracket.round_of_32[6 + 1]
        IN /\ R32_BRACKET[6 + 1].match_num = 79
           /\ group_a.standings[1].team_id \in TeamsOf(match_79)
           /\ group_a.standings[2].team_id \notin TeamsOf(match_79)

\* C18: the third-place match is played by the two semi-final losers and the
\* final by the two semi-final winners, in semi-final order; champion and
\* runner-up are winner and loser of the final, third and fourth winner and
\* loser of the third-place match, four distinct teams of the tournament.
C18_FinalsFromSemiFinals ==
    eng_result.is_some =>
        LET r == eng_result.value
            kb == r.knockout_bracket
        IN /\ Len(kb.semi_finals) = 2
           /\ kb.third_place.home_team = loser(kb.semi_finals[1]).value
           /\ kb.third_place.away_team = loser(kb.semi_finals[2]).value
           /\ kb.final_match.home_team = winner(kb.semi_finals[1]).value
           /\ kb.final_match.away_team = winner(kb.semi_finals[2]).value
           /\ r.champion = winner(kb.final_match).value
           /\ r.runner_up = loser(kb.final_match).value
           /\ r.third_place = winner(kb.third_place).value
           /\ r.fourth_place = loser(kb.third_place).value
           /\ Cardinality({r.champion, r.runner_up, r.third_place, r.fourth_place}) = 4
           /\ {r.champion, r.runner_up, r.third_place, r.fourth_place} \subseteq TeamIds

\* C18 witness: both last matches went to penalties, the final won by the
\* winner of the second semi-final and the third place by the loser of the
\* first.
C18_Witness ==
    /\ eng_result.is_some
    /\ LET r == eng_result.value
           kb == r.knockout_bracket
       IN /\ kb.final_match.penalties.is_some
          /\ kb.third_place.penalties.is_some
          /\ r.champion = winner(kb.semi_finals[2]).value
          /\ r.third_place = loser(kb.semi_finals[1]).value

(***************************************************************************)
(* Validation of a tournament.                                             *)
(***************************************************************************)
\* The places of the groups: <<group index, index in Group.teams>>.
ListedPlaces == {<<g, k>> : g \in DOMAIN v_groups, k \in 1..TEAMS_PER_GROUP}

TeamAtPlace(p) == v_groups[p[1]].teams[p[2]]

SomeTeamMissing == \E p \in ListedPlaces : TeamAtPlace(p) \notin Range(v_teams)

SomeTeamRepeated ==
    \E p, q \in ListedPlaces : p # q /\ TeamAtPlace(p) = TeamAtPlace(q)

\* C19: validate returns InvalidTeamCount whenever there are not 48 teams,
\* otherwise InvalidGroupCount when there are not 12 groups, otherwise
\* TeamNotFound when a group lists an id absent from the teams, otherwise
\* DuplicateTeam when an id is listed more than once across the groups,
\* and Ok only when none of these holds.
C19_ValidateErrorOrder ==
    vpc = "validated" =>
        v_outcome.value.kind =
            (IF Len(v_teams) # 48 THEN "InvalidTeamCount"
             ELSE IF Len(v_groups) # 12 THEN "InvalidGroupCount"
             ELSE IF SomeTeamMissing THEN "TeamNotFound"
             ELSE IF SomeTeamRepeated THEN "DuplicateTeam"
             ELSE "Ok")

\* C19 witness: 48 teams and 12 groups, one group lists a missing id and an
\* id is listed twice; TeamNotFound was returned.
C19_Witness ==
    /\ vpc = "validated"
    /\ Len(v_teams) = 48
    /\ Len(v_groups) = 12
    /\ SomeTeamMissing
    /\ SomeTeamRepeated
    /\ v_outcome.value.kind = "TeamNotFound"

(***************************************************************************)
(* The most frequent bracket of an aggregation.                            *)
(***************************************************************************)
\* The tracked signatures whose final was won by the most likely winner.
TrackedForWinner ==
    {e \in fold_results(NoAggregate, tournament_results).bracket_outcomes :
        won_by(e[2][2].final_match, aggregated.value.most_likely_winner)}

CallsSoFar ==
    /\ \A k \in DOMAIN seq_calls :
          /\ seq_calls[k][2] = seq_iterations
          /\ seq_calls[k][1] >= 1
          /\ seq_calls[k][1] <= seq_iterations
    /\ \A k \in 1..(Len(seq_calls) - 1) :
          /\ seq_calls[k][1] < seq_calls[k + 1][1]
          /\ \/ seq_calls[k + 1][1] - seq_calls[k][1] = 100
             \/ /\ k + 1 = Len(seq_calls)
                /\ seq_calls[k + 1][1] = seq_iterations
    /\ spc = "returned" =>
          /\ seq_calls # <<>>
          /\ seq_calls[Len(seq_calls)][1] = seq_iterations
          /\ seq_total = Some(seq_iterations)

\* A step that calls on_progress passes the simulations finished so far.
CallStep ==
    seq_calls' # seq_calls =>
        seq_calls' = Append(seq_calls, <<seq_results', seq_iterations>>)

\* C21: in a sequential run of N >= 1 iterations every on_progress call gets
\* (completed, N) with completed the number of simulations finished so far,
\* 1 <= completed <= N, strictly increasing from call to call, non-final
\* calls 100 apart, the last call with completed = N, and the returned
\* total_simulations is N.
C21_ProgressCallbacks == [](CallsSoFar) /\ [][CallStep]_vars

\* C21 witness: a run of more than 200 iterations that is not a multiple of
\* 100 plus one returned after four calls, the last one for the final
\* iteration.
C21_Witness ==
    /\ spc = "returned"
    /\ seq_iterations > 201
    /\ Len(seq_calls) = 4
    /\ seq_calls[3][1] = 201
    /\ seq_calls[4][1] = seq_iterations

(***************************************************************************)
(* The wiring of the knockout rounds.                                      *)
(***************************************************************************)
\* Match k of the later round is played between the winners of the matches
\* 2k and 2k+1 of the earlier round (counted from 0).
FedByPairs(earlier, later) ==
    /\ 2 * Len(later) = Len(earlier)
    /\ \A k \in DOMAIN later :
          /\ later[k].home_team = winner(earlier[2 * k - 1]).value
          /\ later[k].away_team = winner(earlier[2 * k]).value

\* C22: the Round of 16, the quarter-finals and the semi-finals are each
\* played between the winners of consecutive pairs of matches of the round
\* before, and the bracket has 16, 8, 4 and 2 matches in the four rounds.
C22_RoundsWiredByPairs ==
    /\ eng_bracket.round_of_32 # <<>> => Len(eng_bracket.round_of_32) = 16
    /\ eng_bracket.round_of_16 # <<>> =>
          FedByPairs(eng_bracket.round_of_32, eng_bracket.round_of_16)
    /\ eng_bracket.quarter_finals # <<>> =>
          FedByPairs(eng_bracket.round_of_16, eng_bracket.quarter_finals)
    /\ eng_bracket.semi_finals # <<>> =>
          FedByPairs(eng_bracket.quarter_finals, eng_bracket.semi_finals)
    /\ eng_result.is_some =>
          /\ Len(eng_result.value.knockout_bracket.round_of_32) = 16
          /\ Len(eng_result.value.knockout_bracket.round_of_16) = 8
          /\ Len(eng_result.value.knockout_bracket.quarter_finals) = 4
          /\ Len(eng_result.value.knockout_bracket.semi_finals) = 2

\* C22 witness: a finished tournament in which an away team of the Round of
\* 32 went on to the Round of 16 and a quarter-final was won on penalties by
\* a team that then played the second semi-final.
C22_Witness ==
    /\ eng_result.is_some
    /\ LET kb == eng_result.value.knockout_bracket
       IN /\ kb.round_of_16[3].home_team = kb.round_of_32[5].away_team
          /\ kb.quarter_finals[3].penalties.is_some
          /\ kb.semi_finals[2].home_team = winner(kb.quarter_finals[3]).value

(***************************************************************************)
(* Ties of three or more teams in a group.                                 *)
(***************************************************************************)
\* The places of the standings level with place i, place i included.
LevelWith(st, i) == {k \in DOMAIN st : Level(st[k], st[i])}

\* C23: when three or more teams of a group are level on points, goal
\* difference and goals scored, the standings order them by ascending team
\* id, whatever their mutual matches were.
C23_ThreeWayTieByTeamId ==
    gpc = "resolved" =>
        LET st == grp_result.standings
        IN \A i, j \in DOMAIN st :
              (/\ i < j
               /\ Level(st[i], st[j])
               /\ Cardinality(LevelWith(st, i)) >= 3) =>
                  st[i].team_id < st[j].team_id

\* a is ordered before b by the comparator of resolve_standings.
Before(a, b) == resolve_standings_compare(a, b, grp_matches) = "Less"

\* C24: over the four standings of a group whose six matches were played,
\* the comparator of resolve_standings is a strict total order: of two
\* different teams exactly one is before the other, and before is transitive.
C24_ComparatorStrictTotalOrder ==
    gpc = "played" =>
        \A st \in {calculate_standings(grp.teams, grp_matches, grp.id)} :
           /\ \A i \in DOMAIN st : ~Before(st[i], st[i])
           /\ \A i, j \in DOMAIN st : i # j =>
                 (Before(st[i], st[j]) <=> ~Before(st[j], st[i]))
           /\ \A i, j, k \in DOMAIN st :
                 (Before(st[i], st[j]) /\ Before(st[j], st[k])) => Before(st[i], st[k])

(***************************************************************************)
(* Round-of-32 opponents come from different groups.                       *)
(***************************************************************************)
\* The group in whose standings a team appears.
GroupOfTeam(team) ==
    CHOOSE g \in {group_results[i].group_id : i \in DOMAIN group_results} :
        \E i \in DOMAIN group_results :
            /\ group_results[i].group_id = g
            /\ \E p \in DOMAIN group_results[i].standings :
                  group_results[i].standings[p].team_id = team

\* C25: no Round-of-32 pairing holds two teams of the same group, whichever
\* eight third-placed teams qualify.
C25_NoSameGroupPairing ==
    bpc.engine = "paired" =>
        \A k \in DOMAIN r32_pairings :
            GroupOfTeam(r32_pairings[k][1]) # GroupOfTeam(r32_pairings[k][2])

(***************************************************************************)
(* The cap on the tracked bracket signatures.                              *)
(***************************************************************************)
\* The signatures the map holds.
TrackedSignatures(outcomes) == {e[1] : e \in outcomes}

\* The count the map holds for a signature it tracks.
TrackedCount(outcomes, sig) == (CHOOSE e \in outcomes : e[1] = sig)[2][1]

\* What an iteration does to the map, for the bracket it was given.
CapStep ==
    cap_seen' # cap_seen =>
        LET sig == create_bracket_signature(cap_presented')
        IN IF sig \in TrackedSignatures(cap_outcomes)
           THEN /\ TrackedSignatures(cap_outcomes') = TrackedSignatures(cap_outcomes)
                /\ TrackedCount(cap_outcomes', sig) = TrackedCount(cap_outcomes, sig) + 1
                /\ \A other \in TrackedSignatures(cap_outcomes) \ {sig} :
                      TrackedCount(cap_outcomes', other) = TrackedCount(cap_outcomes, other)
           ELSE Cardinality(cap_outcomes) >= MAX_UNIQUE_BRACKETS =>
                   cap_outcomes' = cap_outcomes

\* C26: the bracket-signature map never holds more than 1000 signatures; once
\* it holds 1000, a result with a new signature leaves it as it is and a
\* result with a tracked signature adds one to that signature's count.
C26_SignatureMapCapped ==
    [](Cardinality(cap_outcomes) <= MAX_UNIQUE_BRACKETS) /\ [][CapStep]_vars

\* C26 witness: the map holds 1000 signatures, the bracket of the last
\* result is not among them, and a tracked signature has been counted three
\* times, twice of them by the results before the last.
C26_Witness ==
    /\ cpc = "folding"
    /\ Cardinality(cap_outcomes) = MAX_UNIQUE_BRACKETS
    /\ cap_seen = MaxPresented
    /\ create_bracket_signature(cap_presented) \notin TrackedSignatures(cap_outcomes)
    /\ \E e \in cap_outcomes : e[2][1] = 3

(***************************************************************************)
(* The goals and the kicks of a sampled match.                             *)
(***************************************************************************)
\* C27: the goals of every MatchResult the sampler returns, of a group match
\* or of a knockout match, are between 0 and 15 on either side.
C27_GoalsWithinCap ==
    mpc = "done" =>
        /\ result.home_goals \in 0..POISSON_CAP
        /\ result.away_goals \in 0..POISSON_CAP

\* The shootout is decided: one side leads by more than the other has left.
Decided(home_score, away_score, home_left, away_left) ==
    \/ home_score > away_score + away_left
    \/ away_score > home_score + home_left

\* C28: in the five rounds no kick is taken once the shootout is decided,
\* neither the home kick that opens a round nor the away kick that follows
\* it; a shootout level after the five rounds goes on in pairs of kicks and
\* ends with the first pair in which exactly one side converts.
C28_NoKickOnceDecided ==
    /\ mpc = "shootout" =>
          ~Decided(shootout.home_score, shootout.away_score,
                   SHOOTOUT_ROUNDS - shootout.round, SHOOTOUT_ROUNDS - shootout.round)
    /\ mpc = "shootout_away" =>
          ~Decided(shootout.home_score, shootout.away_score,
                   SHOOTOUT_ROUNDS - shootout.round - 1, SHOOTOUT_ROUNDS - shootout.round)
    /\ (mpc = "sudden_death" /\ shootout.sudden > 0) =>
          \/ shootout.home_score = shootout.away_score
          \/ shootout.home_score = shootout.away_score + 1
          \/ shootout.away_score = shootout.home_score + 1

(***************************************************************************)
(* The seeds of the simulations.                                           *)
(***************************************************************************)
\* C29: simulation i of a run is seeded with base + i modulo the width of
\* the seed, where base is the configured seed when there is one and
\* otherwise the reading of the wall clock taken when the run started, in
\* the sequential mode as in the parallel one.
C29_SeedsFromUserSeedOrClock ==
    seq_rng_seed.is_some =>
        seq_rng_seed.value =
            wrapping_add(IF seq_seed.is_some THEN seq_seed.value ELSE seq_clock,
                         seq_i - 1)

(***************************************************************************)
(* Simulating what validate accepted.                                      *)
(***************************************************************************)
\* C30: a tournament that validate accepted is simulated to completion: the
\* run finds the winner and the runner-up of every group A..L, resolves the
\* eight qualifying third-placed teams to their slots and returns a result.
C30_AcceptedTournamentSimulates ==
    /\ vpc # "panicked"
    /\ vpc = "simulated" =>
          /\ v_result.is_some
          /\ Len(v_result.value.knockout_bracket.round_of_32) = 16

=============================================================================
